---- MODULE Spec2Model ----
(***************************************************************************)
(* A model of the portfolio analytics core of finance-analytics:           *)
(*   - BlackLittermanModel            (src/analysis/portfolio/black_litterman.py) *)
(*   - DataManager and its singleton  (src/analysis/portfolio/data_manager.py)    *)
(*   - PortfolioOptimizer, the analysis entry points                        *)
(*                                    (src/analysis/portfolio/optimizer.py)       *)
(*   - the /api/optimize handlers     (web_app/routes.py, web_app/app.py)         *)
(*                                                                         *)
(* Numbers.  Returns, covariances and view values are integers in units of *)
(* 0.01; allocations are integers in percent (1 = 0.01).  Quotients are    *)
(* exact rationals <<numerator, denominator>> in lowest terms.  The        *)
(* outcome of scipy's minimize and of the yfinance download is an input    *)
(* of the action that calls it.  Python's None, and an attribute that was  *)
(* never assigned, is the record None; a value v is Some(v).               *)
(***************************************************************************)
EXTENDS Integers, Sequences, FiniteSets, TLC

VARIABLES
    \* ---- one BlackLittermanModel instance
    cov_matrix,            \* self.cov_matrix
    equilibrium_returns,   \* self.equilibrium_returns
    P, Q, Omega,           \* self.P, self.Q, self.Omega (None: attribute not there)
    posterior_returns,     \* self.posterior_returns
    posterior_cov,         \* self.posterior_cov
    bl_call,               \* the last call on the model and how it ended
    \* ---- the shared DataManager and the requests running through it
    cache,                 \* cache file per key: None or Some([frame, fresh])
    req,                   \* per request: its position in fetch_data and its data
    \* ---- the last call on a PortfolioOptimizer / analysis entry point / route
    opt_call,
    \* ---- one call of DataManager._fetch_with_retry: its position in the loop,
    \* the downloads made and the backoff sleeps taken so far
    retry

bl_vars == <<cov_matrix, equilibrium_returns, P, Q, Omega,
             posterior_returns, posterior_cov, bl_call>>
dm_vars == <<cache, req>>
not_bl == <<cache, req, opt_call, retry>>
not_dm == <<cov_matrix, equilibrium_returns, P, Q, Omega,
            posterior_returns, posterior_cov, bl_call, opt_call, retry>>
not_opt == <<cov_matrix, equilibrium_returns, P, Q, Omega,
             posterior_returns, posterior_cov, bl_call, cache, req, retry>>
not_retry == <<cov_matrix, equilibrium_returns, P, Q, Omega, posterior_returns,
               posterior_cov, bl_call, cache, req, opt_call>>
vars == <<cov_matrix, equilibrium_returns, P, Q, Omega, posterior_returns,
          posterior_cov, bl_call, cache, req, opt_call, retry>>

None == [some |-> FALSE]
Some(v) == [some |-> TRUE, val |-> v]

(***************************************************************************)
(* Arithmetic helpers.                                                     *)
(***************************************************************************)
Abs(x) == IF x < 0 THEN -x ELSE x

RECURSIVE GCD(_, _)
GCD(a, b) == IF b = 0 THEN Abs(a) ELSE GCD(b, a % b)

\* the rational n/d (d > 0) in lowest terms
Rat(n, d) == LET g == GCD(Abs(n), d) IN <<n \div g, d \div g>>

RAdd(a, b) == Rat(a[1] * b[2] + b[1] * a[2], a[2] * b[2])
RMul(a, b) == Rat(a[1] * b[1], a[2] * b[2])
\* a / b for b > 0
RDiv(a, b) == Rat(a[1] * b[2], a[2] * b[1])

RECURSIVE RSum(_)
RSum(s) == IF s = <<>> THEN <<0, 1>> ELSE RAdd(Head(s), RSum(Tail(s)))

RECURSIVE SumSeq(_)
SumSeq(s) == IF s = <<>> THEN 0 ELSE Head(s) + SumSeq(Tail(s))

\* determinant by expansion along the first row
RECURSIVE Det(_)
Det(m) ==
    LET n == Len(m)
        Minor(j) == [r \in 1..(n - 1) |->
                       [c \in 1..(n - 1) |-> m[r + 1][IF c < j THEN c ELSE c + 1]]]
        Sign(j) == IF j % 2 = 1 THEN 1 ELSE -1
        Term(j) == Sign(j) * m[1][j] * Det(Minor(j))
    IN  IF n = 0 THEN 1
        ELSE IF n = 1 THEN m[1][1]
        ELSE SumSeq([j \in 1..n |-> Term(j)])

(***************************************************************************)
(* BlackLittermanModel.                                                    *)
(***************************************************************************)
\* self.tickers of the modelled instance
tickers == <<"AAPL", "GOOGL", "MSFT">>

\* self.n_assets = len(tickers)
n_assets == Len(tickers)

\* tau = 0.05 = TauNum / TauDen
TauNum == 1
TauDen == 20

\* delta = 2.5 = DeltaNum / DeltaDen
DeltaNum == 5
DeltaDen == 2

\* the default confidence 0.5 = DefaultConfNum / DefaultConfDen
DefaultConfNum == 1
DefaultConfDen == 2

\* annualised covariance matrices that fetch_data may produce (units of 0.01):
\* a well-conditioned one and a singular one (two perfectly correlated assets)
CovSet ==
    { << <<4, 1, 0>>, <<1, 2, 0>>, <<0, 0, 3>> >>,
      << <<1, 1, 0>>, <<1, 1, 0>>, <<0, 0, 1>> >> }

\* the investor views the model is exercised with
ViewAbs1     == [assets |-> <<"AAPL">>,                  view |-> 15, type |-> "absolute"]
ViewAbs12    == [assets |-> <<"AAPL", "MSFT">>,          view |-> 10, type |-> "absolute"]
ViewRel      == [assets |-> <<"MSFT", "AAPL">>,          view |-> 2,  type |-> "relative"]
ViewRel3     == [assets |-> <<"GOOGL", "AAPL", "MSFT">>, view |-> 3,  type |-> "relative"]
ViewRel1     == [assets |-> <<"GOOGL">>,                 view |-> 4,  type |-> "relative"]
ViewBadKind  == [assets |-> <<"AAPL">>,                  view |-> 5,  type |-> "momentum"]
ViewBadAsset == [assets |-> <<"TSLA">>,                  view |-> 6,  type |-> "absolute"]

ViewLists ==
    { <<>>,
      <<ViewAbs12>>, <<ViewRel3>>, <<ViewRel1>>, <<ViewAbs1, ViewRel>>,
      <<ViewBadKind>>, <<ViewAbs1, ViewBadKind>>, <<ViewBadKind, ViewAbs1>>,
      <<ViewBadAsset>>, <<ViewBadAsset, ViewBadKind>>, <<ViewRel, ViewBadAsset>> }

\* the confidences argument: None, or full confidence (1.0) in every view
ConfArgs == {"None", "full"}

\* market_weights with market_caps=None: 1 / n_assets each
market_weights == [i \in 1..n_assets |-> Rat(1, n_assets)]

\* Pi = delta * Sigma * w_market, in units of 0.01
ReverseOptimizationOf(cov) ==
    [i \in 1..n_assets |->
        RMul(<<DeltaNum, DeltaDen>>,
             RSum([j \in 1..n_assets |-> RMul(<<cov[i][j], 1>>, market_weights[j])]))]

\* the same for every covariance matrix the model uses, computed once
EquilibriumTable == [cov \in CovSet |-> ReverseOptimizationOf(cov)]
ReverseOptimization(cov) == EquilibriumTable[cov]

\* tickers.index(asset): 0 stands for the ValueError of a missing asset
TickerIndex(asset) ==
    IF \E i \in 1..n_assets : tickers[i] = asset
    THEN CHOOSE i \in 1..n_assets :
            /\ tickers[i] = asset
            /\ \A k \in 1..(i - 1) : tickers[k] # asset
    ELSE 0

\* asset_indices of one view
AssetIndices(view) == [k \in 1..Len(view.assets) |-> TickerIndex(view.assets[k])]

KnownKinds == {"absolute", "relative"}

\* the body of add_views' loop raises ValueError for this view: an asset that
\* is not a ticker (tickers.index), or a kind that is neither branch
ViewRaises(view) ==
    \/ \E k \in 1..Len(view.assets) : TickerIndex(view.assets[k]) = 0
    \/ view.type \notin KnownKinds

\* as LoopRaises, but only the first view of the list is looked at
LoopRaisesFirstOnly(views) == views # <<>> /\ ViewRaises(views[1])

\* add_views' loop raises on the first such view, whatever its position
LoopRaises(views) == \E i \in 1..Len(views) : ViewRaises(views[i])

\* P[i, idx[from..]] = 0.0, one assignment after the other
RECURSIVE ZeroFrom(_, _, _)
ZeroFrom(row, idx, from) ==
    IF from > Len(idx) THEN row
    ELSE ZeroFrom([row EXCEPT ![idx[from]] = <<0, 1>>], idx, from + 1)

\* row i of the pick matrix, as the assignments of the loop body leave it
PickRow(view) ==
    LET idx == AssetIndices(view)
        zero == [c \in 1..n_assets |-> <<0, 1>>]
    IN  IF view.type = "absolute"
        THEN [c \in 1..n_assets |->
                IF \E k \in 1..Len(idx) : idx[k] = c THEN Rat(1, Len(idx)) ELSE <<0, 1>>]
        ELSE IF view.type = "relative" /\ Len(idx) >= 2
        THEN ZeroFrom([[zero EXCEPT ![idx[1]] = <<1, 1>>] EXCEPT ![idx[2]] = <<-1, 1>>],
                      idx, 3)
        ELSE zero

\* Q[i]
ViewValue(view) ==
    IF view.type = "absolute" \/ (view.type = "relative" /\ Len(view.assets) >= 2)
    THEN view.view
    ELSE 0

\* confidences[i]: 0.5 each when the argument is None
Confidence(conf) == IF conf = "None" THEN <<DefaultConfNum, DefaultConfDen>> ELSE <<1, 1>>

\* P[i] . Sigma . P[i]
QuadForm(row, cov) ==
    RSum([j \in 1..n_assets |->
            RMul(row[j], RSum([k \in 1..n_assets |-> RMul(<<cov[j][k], 1>>, row[k])]))])

\* Omega[i, i] = tau * (P[i] . Sigma . P[i]) / confidences[i]
OmegaDiag(row, cov, conf) ==
    LET omega_i == RMul(<<TauNum, TauDen>>, QuadForm(row, cov))
    IN  RDiv(omega_i, Confidence(conf))

BuildP(views) == [i \in 1..Len(views) |-> PickRow(views[i])]
BuildQ(views) == [i \in 1..Len(views) |-> ViewValue(views[i])]
BuildOmega(views, cov, conf) ==
    [i \in 1..Len(views) |-> OmegaDiag(PickRow(views[i]), cov, conf)]

\* add_views' results for every argument the model uses, computed once
AddViewsTable ==
    [views \in ViewLists |->
        [raises |-> LoopRaises(views),
         P |-> BuildP(views),
         Q |-> BuildQ(views),
         Omega |-> [cov \in CovSet |-> [conf \in ConfArgs |-> BuildOmega(views, cov, conf)]]]]

\* np.linalg.inv raises LinAlgError on tau * Sigma or on the diagonal Omega
SingularTable == [cov \in CovSet |-> Det(cov) = 0]
PriorSingular(cov) == SingularTable[cov]
\* as OmegaSingular, but the inverse of Omega is taken whatever its diagonal
OmegaNeverSingular(om) == FALSE
OmegaSingular(om) == \E i \in 1..Len(om) : om[i][1] = 0

\* the Black-Litterman posterior mean and covariance, as terms over the
\* inputs the formula reads
PosteriorMean(cov, pi, p, q, om) ==
    [Sigma |-> cov, Pi |-> pi, P |-> p, Q |-> q, Omega |-> om]
PosteriorCov(cov, p, om) == [Sigma |-> cov, P |-> p, Omega |-> om]

\* a call and how it ended: the operation, its arguments, the exception
\* ("none" when it returned), the moments it read ("none", "equilibrium",
\* "posterior"), whether minimize was called, and the value returned
BLCall(op, arg, err, used, solved, ret) ==
    [op |-> op, arg |-> arg, err |-> err, used |-> used, solved |-> solved, ret |-> ret]

NoArg == [none |-> TRUE]

BLInit ==
    /\ cov_matrix = None
    /\ equilibrium_returns = None
    /\ P = None /\ Q = None /\ Omega = None
    /\ posterior_returns = None
    /\ posterior_cov = None
    /\ bl_call = BLCall("init", NoArg, "none", "none", FALSE, None)

\* "at least 30 days of data": the rows PortfolioOptimizer.fetch_data asks for
MinObservations == 30

\* the number of rows of the returns the data manager hands back
RowCounts == {MinObservations - 1, MinObservations}

\* the guard of calculate_equilibrium_returns
EquilibriumRaises == cov_matrix = None

\* the value calculate_equilibrium_returns leaves in self.equilibrium_returns
EquilibriumAfter ==
    IF EquilibriumRaises THEN equilibrium_returns
    ELSE Some(ReverseOptimization(cov_matrix.val))

CalculateEquilibriumReturns ==
    /\ bl_call.op # "loading"
    /\ equilibrium_returns' = EquilibriumAfter
    /\ bl_call' = IF EquilibriumRaises
                  THEN BLCall("calculate_equilibrium_returns", NoArg, "ValueError", "none", FALSE, None)
                  ELSE BLCall("calculate_equilibrium_returns", NoArg, "none", "none", FALSE,
                              EquilibriumAfter)
    /\ UNCHANGED <<cov_matrix, P, Q, Omega, posterior_returns, posterior_cov, not_bl>>

\* the equilibrium step that add_views, optimize_portfolio, portfolio_stats and
\* generate_efficient_frontier run first when equilibrium_returns is None
NeedsEquilibrium == equilibrium_returns = None
LazyEquilibriumRaises == NeedsEquilibrium /\ EquilibriumRaises
\* as LazyEquilibriumAfter, but the equilibrium step is left out
LazyEquilibriumSkipped == equilibrium_returns
LazyEquilibriumAfter == IF NeedsEquilibrium THEN EquilibriumAfter ELSE equilibrium_returns

AddViews ==
    /\ bl_call.op # "loading"
    /\ \E views \in ViewLists, conf \in ConfArgs :
           /\ equilibrium_returns' = LazyEquilibriumAfter
           /\ IF LazyEquilibriumRaises \/ AddViewsTable[views].raises
              THEN /\ bl_call' = BLCall("add_views", [views |-> views, confidences |-> conf],
                                        "ValueError", "none", FALSE, None)
                   /\ UNCHANGED <<P, Q, Omega>>
              ELSE /\ P' = Some(AddViewsTable[views].P)
                   /\ Q' = Some(AddViewsTable[views].Q)
                   /\ Omega' = Some(AddViewsTable[views].Omega[cov_matrix.val][conf])
                   /\ bl_call' = BLCall("add_views", [views |-> views, confidences |-> conf],
                                        "none", "none", FALSE,
                                        [P |-> P', Q |-> Q', Omega |-> Omega'])
           /\ UNCHANGED <<cov_matrix, posterior_returns, posterior_cov, not_bl>>

\* the guard of calculate_posterior_returns: hasattr(self, 'P') and so on
ViewsMissing == P = None \/ Q = None \/ Omega = None

\* what calculate_posterior_returns raises, "none" when it returns
PosteriorError ==
    IF ViewsMissing THEN "ValueError"
    ELSE IF PriorSingular(cov_matrix.val) \/ OmegaSingular(Omega.val) THEN "LinAlgError"
    ELSE "none"

CalculatePosteriorReturns ==
    /\ bl_call.op # "loading"
    /\ IF PosteriorError = "none"
       THEN /\ posterior_cov' = Some(PosteriorCov(cov_matrix.val, P.val, Omega.val))
            /\ posterior_returns' =
                   Some(PosteriorMean(cov_matrix.val, equilibrium_returns,
                                      P.val, Q.val, Omega.val))
            /\ bl_call' = BLCall("calculate_posterior_returns", NoArg, "none", "none", FALSE,
                                 posterior_returns')
       ELSE /\ bl_call' = BLCall("calculate_posterior_returns", NoArg, PosteriorError, "none",
                                 FALSE, None)
            /\ UNCHANGED <<posterior_returns, posterior_cov>>
    /\ UNCHANGED <<cov_matrix, equilibrium_returns, P, Q, Omega, not_bl>>

\* the moments optimize_portfolio, portfolio_stats and generate_efficient_frontier
\* select: the posterior when posterior_returns is set, else the equilibrium
UsesPosterior == posterior_returns # None
MomentsUsed == IF UsesPosterior THEN "posterior" ELSE "equilibrium"
\* as SelectRaises, but missing data goes unnoticed
SelectNeverRaises == FALSE
SelectRaises == ~UsesPosterior /\ LazyEquilibriumRaises
SelectedReturns == IF UsesPosterior THEN posterior_returns ELSE LazyEquilibriumAfter
SelectedCov ==
    IF UsesPosterior
    THEN (IF posterior_cov # None THEN posterior_cov ELSE cov_matrix)
    ELSE cov_matrix

Objectives == {"max_sharpe", "min_volatility"}

\* the constraint argument of the optimize operations
ConstraintArgs == Objectives \cup {"max_return"}

\* weight vectors minimize may return for three assets, in percent
SolverWeights == { <<34, 33, 33>>, <<100, 0, 0>> }

\* an iterate SLSQP stopped at without meeting the constraints
StalledIterate == <<60, 60, 60>>

\* the min_weight argument, in percent: the default 0.0, or 0.6
MinWeights == {0, 60}

\* the max_weight argument, in percent: the default 1.0
DefaultMaxWeight == 100

\* the constraints handed to minimize: the weights sum to 1 and each lies
\* within its bounds
MeetsConstraints(x, min_weight, max_weight) ==
    /\ SumSeq(x) = 100
    /\ \A i \in 1..Len(x) : min_weight <= x[i] /\ x[i] <= max_weight

\* result.success and result.x of one minimize call: a successful result meets
\* the constraints, a failed one carries whatever iterate the solver stopped at
SolverOutcomes(min_weight) ==
    { r \in [success : BOOLEAN, x : SolverWeights \cup {StalledIterate}] :
        r.success => MeetsConstraints(r.x, min_weight, DefaultMaxWeight) }

\* warnings.filterwarnings('ignore'), run when the module is imported
WarningsFilter == "ignore"

\* warnings.warn: the warning is shown unless the filter discards it
Warned(issued) == issued /\ WarningsFilter # "ignore"

\* BlackLittermanModel.optimize_portfolio with the default max_weight
BLOptimizePortfolio ==
    /\ bl_call.op # "loading"
    /\ \E constraint \in ConstraintArgs, min_weight \in MinWeights :
       \E result \in SolverOutcomes(min_weight) :
           /\ equilibrium_returns' = IF UsesPosterior THEN equilibrium_returns
                                     ELSE LazyEquilibriumAfter
           /\ bl_call' =
                IF SelectRaises
                THEN BLCall("optimize_portfolio",
                            [constraint |-> constraint, min_weight |-> min_weight],
                            "ValueError", "none", FALSE, None)
                ELSE IF constraint \notin Objectives
                THEN BLCall("optimize_portfolio",
                            [constraint |-> constraint, min_weight |-> min_weight],
                            "ValueError", MomentsUsed, FALSE, None)
                ELSE BLCall("optimize_portfolio",
                            [constraint |-> constraint, min_weight |-> min_weight],
                            "none", MomentsUsed, TRUE,
                            [weights |-> result.x, returns |-> SelectedReturns,
                             cov |-> SelectedCov, objective |-> constraint,
                             success |-> result.success, warned |-> Warned(~result.success)])
           /\ UNCHANGED <<cov_matrix, P, Q, Omega, posterior_returns, posterior_cov, not_bl>>

\* BlackLittermanModel.portfolio_stats: the statistics of the weights under
\* the selected moments
BLPortfolioStats ==
    /\ bl_call.op # "loading"
    /\ \E weights \in SolverWeights :
           /\ equilibrium_returns' = IF UsesPosterior THEN equilibrium_returns
                                     ELSE LazyEquilibriumAfter
           /\ bl_call' =
                IF SelectRaises
                THEN BLCall("portfolio_stats", [weights |-> weights],
                            "ValueError", "none", FALSE, None)
                ELSE BLCall("portfolio_stats", [weights |-> weights],
                            "none", MomentsUsed, FALSE,
                            [weights |-> weights, returns |-> SelectedReturns,
                             cov |-> SelectedCov])
           /\ UNCHANGED <<cov_matrix, P, Q, Omega, posterior_returns, posterior_cov, not_bl>>

\* number of target returns of a frontier sweep
NumPortfolios == 2

\* how the solve of one target ends: result.success is true, result.success
\* is false, or an exception
SweepStatuses == {"success", "failure", "raise"}

\* as Converged, but the sweep ends at the first target that fails
RECURSIVE ConvergedUntilFailure(_, _)
ConvergedUntilFailure(outcomes, k) ==
    IF k > Len(outcomes) \/ ~outcomes[k] THEN <<>>
    ELSE <<k>> \o ConvergedUntilFailure(outcomes, k + 1)

\* the targets whose solve succeeded, in sweep order
RECURSIVE Converged(_, _)
Converged(outcomes, k) ==
    IF k > Len(outcomes) THEN <<>>
    ELSE (IF outcomes[k] THEN <<k>> ELSE <<>>) \o Converged(outcomes, k + 1)

\* BlackLittermanModel.generate_efficient_frontier: one solve per target, a
\* target that fails is skipped
BLGenerateEfficientFrontier ==
    /\ bl_call.op # "loading"
    /\ \E outcomes \in [1..NumPortfolios -> SweepStatuses] :
           /\ equilibrium_returns' = IF UsesPosterior THEN equilibrium_returns
                                     ELSE LazyEquilibriumAfter
           /\ bl_call' =
                IF SelectRaises
                THEN BLCall("generate_efficient_frontier",
                            [num_portfolios |-> NumPortfolios, outcomes |-> outcomes],
                            "ValueError", "none", FALSE, None)
                ELSE BLCall("generate_efficient_frontier",
                            [num_portfolios |-> NumPortfolios, outcomes |-> outcomes],
                            "none", MomentsUsed, TRUE,
                            [points |-> Converged([k \in 1..NumPortfolios |->
                                                     outcomes[k] = "success"], 1),
                             returns |-> SelectedReturns,
                             cov |-> SelectedCov])
           /\ UNCHANGED <<cov_matrix, P, Q, Omega, posterior_returns, posterior_cov, not_bl>>

(***************************************************************************)
(* DataManager: the module-level singleton every request fetches through.  *)
(* fetch_data is split where another request can run in between: the cache *)
(* check, and the return of the external download.                         *)
(***************************************************************************)
\* ticker symbols in the order Python's sorted() gives them
Alphabet ==
    <<"AAPL", "AGG", "GLD", "GOOGL", "MSFT", "NVDA", "TLT", "TSLA", "VNQ", "VOO",
      "VTI", "VXUS", "XLB", "XLE", "XLF", "XLI", "XLK", "XLP", "XLRE", "XLU", "XLV",
      "XLY">>
Rank(t) == CHOOSE i \in 1..Len(Alphabet) : Alphabet[i] = t

\* sorted(tickers)
RECURSIVE Sorted(_)
Sorted(ts) ==
    IF ts = <<>> THEN <<>>
    ELSE LET m == CHOOSE i \in 1..Len(ts) :
                     \A k \in 1..Len(ts) :
                         \/ Rank(ts[i]) < Rank(ts[k])
                         \/ (Rank(ts[i]) = Rank(ts[k]) /\ i <= k)
             rest == [k \in 1..(Len(ts) - 1) |-> IF k < m THEN ts[k] ELSE ts[k + 1]]
         IN  <<ts[m]>> \o Sorted(rest)

\* _get_cache_path: "_".join(sorted(tickers)) + "_<time_period>y.pkl"
CachePath(ts, time_period) == <<Sorted(ts), time_period>>

\* ticker lists and lookbacks the requests ask for
TickerLists == { <<"AAPL", "MSFT">>, <<"MSFT", "AAPL">> }
TimePeriods == {1, 2}

\* largest number of tickers of an optimizer
MaxAssets == 3

\* lookbacks in years a request can carry: 1..10 is the valid range
MinTimePeriod == 1
MaxTimePeriod == 10
RequestPeriods == {0, 2, 11}
PeriodInvalid(time_period) == time_period < MinTimePeriod \/ time_period > MaxTimePeriod

\* the time_period default of PortfolioOptimizer.__init__
DefaultTimePeriod == 2

\* the ticker list of a request with n tickers
RequestTickers(n) == SubSeq(<<"AAPL", "MSFT", "NVDA", "TSLA">>, 1, n)

\* the cache files the model follows.  A file of any other key exists or not
\* as the environment has it, and what is written to it is not kept
CachePaths == { CachePath(ts, tp) : ts \in TickerLists, tp \in TimePeriods }

\* the requests that can be inside fetch_data at once
Requests == {"r1", "r2"}

\* what _fetch_with_retry hands back: the bulk download (methods 1 and 3)
\* with its ticker columns in the order of the request or, as yf.download
\* arranges them, in sorted order; the frame combined from the per-ticker
\* downloads (method 2, only for more than one ticker); or None after every
\* attempt failed
FetchOutcomes(ts) ==
    {"bulk", "bulk_sorted", "None"} \cup (IF Len(ts) > 1 THEN {"combined"} ELSE {})

\* fetch_data after _fetch_with_retry returned: the exception it raises
\* ("none" when it returns).  The combined frame has one column per ticker and
\* neither an 'Adj Close' nor a 'Close' column, so data['Close'] raises
\* KeyError.  After None, _create_synthetic_data takes the weekdays from
\* start_date to end_date; with time_period 0 that is today alone, and on a
\* Saturday or Sunday dates[0] raises IndexError
FetchError(outcome, time_period, weekday) ==
    IF outcome = "combined" THEN "KeyError"
    ELSE IF outcome = "None" /\ time_period = 0 /\ ~weekday THEN "IndexError"
    ELSE "none"

\* the returns frame built from the fetched data: its columns in order, and
\* where the numbers came from.  prices.pct_change().dropna() keeps the
\* columns of the download as they came; the synthetic frame is built in the
\* order of the ticker list
ReturnsFrame(ts, outcome) ==
    [columns |-> IF outcome = "bulk_sorted" THEN Sorted(ts) ELSE ts,
     source |-> IF outcome \in {"bulk", "bulk_sorted"} THEN "download" ELSE "synthetic"]

Idle ==
    [pc |-> "idle", tickers |-> <<>>, time_period |-> 0, force_refresh |-> FALSE,
     err |-> "none", data |-> None]

\* _is_cache_valid and _load_from_cache: the file exists and is young enough
CacheValid(path) == cache[path] # None /\ cache[path].val.fresh

DMInit ==
    /\ cache = [path \in CachePaths |-> None]
    /\ req = [r \in Requests |-> Idle]

\* the frames a valid file of a key the model does not follow may hold
FoundFiles(ts, tp) ==
    IF CachePath(ts, tp) \in CachePaths THEN {None}
    ELSE {None} \cup {Some(ReturnsFrame(ts, o)) : o \in {"bulk", "bulk_sorted", "None"}}

\* whether the cache file is written: a write to a file that is not followed
\* leaves nothing to tell
Saves(path) == IF path \in CachePaths THEN BOOLEAN ELSE {TRUE}

\* whether today is a weekday, which a lookback of 0 years alone depends on
Weekdays(time_period) == IF time_period = 0 THEN BOOLEAN ELSE {TRUE}

\* whether _load_from_cache gets the frame of a valid file; for a file that
\* is not followed FoundFiles tells
Loads(ts, tp) == IF CachePath(ts, tp) \in CachePaths THEN BOOLEAN ELSE {TRUE}

\* fetch_data up to the call of _fetch_with_retry: a valid cache entry that
\* pickle can load is returned as it is, otherwise the request goes on to
\* download; loaded tells whether _load_from_cache gets the frame or None.
\* found is the frame loaded from a valid file of a key that is not followed
\* (None when there is no such file or it cannot be loaded)
Begun(ts, tp, force_refresh, loaded, found) ==
    LET path == CachePath(ts, tp)
        valid == IF path \in CachePaths THEN CacheValid(path) ELSE found # None
        frame == IF path \in CachePaths THEN cache[path].val.frame ELSE found.val
    IN
    IF ~force_refresh /\ valid /\ loaded
    THEN [pc |-> "done", tickers |-> ts, time_period |-> tp,
          force_refresh |-> force_refresh,
          err |-> "none", data |-> Some(frame)]
    ELSE [pc |-> "fetching", tickers |-> ts, time_period |-> tp,
          force_refresh |-> force_refresh,
          err |-> "none", data |-> None]

\* a request calls fetch_data with any of the ticker lists and lookbacks
FetchDataBegin(r) ==
    \E ts \in TickerLists, tp \in TimePeriods, force_refresh \in BOOLEAN,
       loaded \in BOOLEAN :
        /\ req[r].pc = "idle"
        /\ req' = [req EXCEPT ![r] = Begun(ts, tp, force_refresh, loaded, None)]
        /\ UNCHANGED <<cache, not_dm>>

\* _save_to_cache: the file is written, or the exception of the write is
\* caught and the file stays as it was
SaveToCache(path, frame, saved) ==
    IF saved /\ path \in CachePaths THEN [cache EXCEPT ![path] = Some([frame |-> frame, fresh |-> TRUE])]
    ELSE cache

\* _fetch_with_retry returns; the returns are computed, written to the cache
\* file and returned
FetchDataFinish(r) ==
    /\ req[r].pc = "fetching"
    /\ \E outcome \in FetchOutcomes(req[r].tickers),
          saved \in Saves(CachePath(req[r].tickers, req[r].time_period)),
          weekday \in Weekdays(req[r].time_period) :
           LET path == CachePath(req[r].tickers, req[r].time_period)
               frame == ReturnsFrame(req[r].tickers, outcome)
               err == FetchError(outcome, req[r].time_period, weekday)
           IN
           /\ IF err = "none"
              THEN /\ cache' = SaveToCache(path, frame, saved)
                   /\ req' = [req EXCEPT ![r].pc = "done", ![r].data = Some(frame)]
              ELSE /\ req' = [req EXCEPT ![r].pc = "done", ![r].err = err]
                   /\ UNCHANGED <<cache>>
           /\ UNCHANGED not_dm

\* the caller takes the result; the slot is free for the next request
FetchDataReturn(r) ==
    /\ req[r].pc = "done"
    /\ req' = [req EXCEPT ![r] = Idle]
    /\ UNCHANGED <<cache, not_dm>>

\* time passes: a cache file becomes older than max_cache_age
CacheExpires ==
    \E path \in CachePaths :
        /\ CacheValid(path)
        /\ cache' = [cache EXCEPT ![path] = Some([frame |-> cache[path].val.frame,
                                                  fresh |-> FALSE])]
        /\ UNCHANGED <<req, not_dm>>

\* the cache files clear_cache(older_than_days) unlinks: every file when
\* older_than_days is None, otherwise the files last written before the
\* cutoff.  A file older than max_cache_age is older than every younger one,
\* so a set of old files that holds a young file holds every expired one
OldFileSets(older_than_days) ==
    LET files == {path \in CachePaths : cache[path] # None} IN
    IF older_than_days = None THEN {files}
    ELSE {old \in SUBSET files :
            (\E path \in old : cache[path].val.fresh)
                => \A path \in files : ~cache[path].val.fresh => path \in old}

\* clear_cache: the files are unlinked; requests in flight are not looked at
ClearCache ==
    \E older_than_days \in {None, Some(3)} :
    \E old \in OldFileSets(older_than_days) :
        /\ cache' = [path \in CachePaths |-> IF path \in old THEN None ELSE cache[path]]
        /\ UNCHANGED <<req, not_dm>>

DMNext ==
    \/ \E r \in Requests : FetchDataBegin(r)
    \/ \E r \in Requests : FetchDataFinish(r)
    \/ \E r \in Requests : FetchDataReturn(r)
    \/ CacheExpires
    \/ ClearCache

(***************************************************************************)
(* BlackLittermanModel.fetch_data, split like the data manager's           *)
(* fetch_data it runs: up to the cache check, and from the return of the   *)
(* download on.                                                            *)
(***************************************************************************)
\* time_period arguments of BlackLittermanModel.fetch_data: the default, and
\* 0, which nothing rejects
BLPeriods == {0, DefaultTimePeriod}

\* fetch_data up to the data manager's cache check: the call takes a free
\* request of the shared data manager
BLFetchDataBegin ==
    /\ bl_call.op # "loading"
    /\ \E slot \in Requests : req[slot].pc = "idle"
    /\ \E time_period \in BLPeriods :
       \E found \in FoundFiles(tickers, time_period) :
       \E loaded \in Loads(tickers, time_period) :
           LET r == CHOOSE slot \in Requests : req[slot].pc = "idle" IN
           /\ req' = [req EXCEPT ![r] = Begun(tickers, time_period, FALSE, loaded, found)]
           /\ bl_call' = BLCall("loading", [time_period |-> time_period, slot |-> r],
                                "none", "none", FALSE, None)
           /\ UNCHANGED <<cov_matrix, equilibrium_returns, P, Q, Omega, posterior_returns,
                          posterior_cov, cache, opt_call, retry>>

\* fetch_data from the return of the data manager on: cov_matrix is replaced,
\* however many rows the returns have.  Nothing is caught: when the data
\* manager raises, fetch_data raises the same and cov_matrix stays as it was
\* (rows is 0 then)
BLFetchDataReturn ==
    /\ bl_call.op = "loading"
    /\ req[bl_call.arg.slot].pc = "done"
    /\ LET r == bl_call.arg.slot
           err == req[r].err
       IN
       \E cov \in CovSet, rows \in (IF err = "none" THEN RowCounts ELSE {0}) :
           /\ cov_matrix' = IF err = "none" THEN Some(cov) ELSE cov_matrix
           /\ bl_call' = BLCall("fetch_data",
                                [rows |-> rows, time_period |-> bl_call.arg.time_period],
                                err, "none", FALSE, None)
           /\ req' = [req EXCEPT ![r] = Idle]
           /\ UNCHANGED <<equilibrium_returns, P, Q, Omega, posterior_returns,
                          posterior_cov, cache, opt_call, retry>>

BLNext ==
    \/ BLFetchDataBegin
    \/ \E r \in Requests : FetchDataFinish(r)
    \/ BLFetchDataReturn
    \/ CalculateEquilibriumReturns
    \/ AddViews
    \/ CalculatePosteriorReturns
    \/ BLOptimizePortfolio
    \/ BLPortfolioStats
    \/ BLGenerateEfficientFrontier

(***************************************************************************)
(* DataManager._fetch_with_retry, one step per download.  Each attempt     *)
(* tries the bulk download (method 1), the per-ticker downloads (method 2, *)
(* for more than one ticker) and the bulk download over an extended date   *)
(* range (method 3, not in the last attempt), then sleeps before the next  *)
(* attempt.                                                                *)
(***************************************************************************)
\* the max_retries default
MaxRetries == 3

\* how a download ends: with usable data, with an empty frame, or with an
\* exception; "interrupted" is an exception outside the three methods, which
\* the outer handler of the attempt catches
DownloadOutcomes == {"data", "empty", "raise"}

\* the numbers of tickers _fetch_with_retry is called with
RetryTickerCounts == {1, 2}

NotRetrying ==
    [pc |-> "idle", num_tickers |-> 0, attempt |-> 0, log |-> <<>>, sleeps |-> <<>>,
     result |-> "none"]

RetryInit == retry = NotRetrying

\* "for attempt in range(max_retries)" is entered with attempt 0
RetryBegin ==
    /\ retry.pc = "idle"
    /\ \E n \in RetryTickerCounts :
          retry' = [NotRetrying EXCEPT !.pc = "method1", !.num_tickers = n]
    /\ UNCHANGED not_retry

\* "if attempt < max_retries - 1" before method 3
Method3Due(attempt) == attempt < MaxRetries - 1

\* as BackoffDue, but every attempt ends with a sleep
BackoffAlways(attempt) == TRUE

\* "if attempt < max_retries - 1" before time.sleep(2 ** attempt)
BackoffDue(attempt) == attempt < MaxRetries - 1

\* the download of one method was made and logged
Logged(method, outcome) ==
    Append(retry.log, [attempt |-> retry.attempt, method |-> method, outcome |-> outcome])

\* "return data" / "return combined_data": the loop is left at once
ReturnData(method, result) ==
    [retry EXCEPT !.pc = "done", !.log = Logged(method, "data"), !.result = result]

\* method 1: _rate_limit and the bulk download
RetryMethod1 ==
    /\ retry.pc = "method1"
    /\ \E outcome \in DownloadOutcomes \cup {"interrupted"} :
          retry' =
            IF outcome = "data" THEN ReturnData(1, "bulk")
            ELSE [retry EXCEPT
                    !.log = Logged(1, outcome),
                    !.pc = IF outcome = "interrupted" THEN "backoff"
                           ELSE IF retry.num_tickers > 1 THEN "method2"
                           ELSE IF Method3Due(retry.attempt) THEN "method3"
                           ELSE "backoff"]
    /\ UNCHANGED not_retry

\* method 2: one download per ticker, combined into one frame when any of
\* them has data
RetryMethod2 ==
    /\ retry.pc = "method2"
    /\ \E outcome \in DownloadOutcomes :
          retry' =
            IF outcome = "data" THEN ReturnData(2, "combined")
            ELSE [retry EXCEPT
                    !.log = Logged(2, outcome),
                    !.pc = IF Method3Due(retry.attempt) THEN "method3" ELSE "backoff"]
    /\ UNCHANGED not_retry

\* method 3: the bulk download from 30 days earlier
RetryMethod3 ==
    /\ retry.pc = "method3"
    /\ \E outcome \in DownloadOutcomes :
          retry' =
            IF outcome = "data" THEN ReturnData(3, "extended")
            ELSE [retry EXCEPT !.log = Logged(3, outcome), !.pc = "backoff"]
    /\ UNCHANGED not_retry

\* the end of an attempt: time.sleep(2 ** attempt) when it is due, then the
\* next attempt, or "return None" after the last one
RetryBackoff ==
    /\ retry.pc = "backoff"
    /\ retry' =
          [retry EXCEPT
             !.sleeps = IF BackoffDue(retry.attempt)
                        THEN Append(retry.sleeps, 2 ^ retry.attempt)
                        ELSE retry.sleeps,
             !.attempt = IF retry.attempt + 1 < MaxRetries THEN retry.attempt + 1
                         ELSE retry.attempt,
             !.pc = IF retry.attempt + 1 < MaxRetries THEN "method1" ELSE "done",
             !.result = IF retry.attempt + 1 < MaxRetries THEN "none" ELSE "None"]
    /\ UNCHANGED not_retry

\* the caller takes the result
RetryReturn ==
    /\ retry.pc = "done"
    /\ retry' = NotRetrying
    /\ UNCHANGED not_retry

RetryNext ==
    \/ RetryBegin
    \/ RetryMethod1
    \/ RetryMethod2
    \/ RetryMethod3
    \/ RetryBackoff
    \/ RetryReturn

(***************************************************************************)
(* PortfolioOptimizer: the optimize operations.  num_assets is the number  *)
(* of tickers of the optimizer, result the outcome of the minimize call    *)
(* (read only when minimize is called).  Allocations are in percent.       *)
(***************************************************************************)
\* result.x: everything in the first asset, or everything in the last
CornerWeights(num_assets) ==
    { [i \in 1..num_assets |-> IF i = 1 THEN 100 ELSE 0],
      [i \in 1..num_assets |-> IF i = num_assets THEN 100 ELSE 0] }

\* an iterate SLSQP stopped at without meeting the constraints
StalledWeights(num_assets) == [i \in 1..num_assets |-> 60]

\* result.success and result.x of one minimize call: a successful result meets
\* the constraints, a failed one carries whatever iterate the solver stopped at
MinimizeResults(num_assets) ==
    { r \in [success : BOOLEAN,
             x : CornerWeights(num_assets) \cup {StalledWeights(num_assets)}] :
        r.success => r.x \in CornerWeights(num_assets) }

\* how an optimize operation ended: the exception ("none" when it returned),
\* the number of minimize calls, the weights returned, and whether a warning
\* was issued
OptResult(err, solver_calls, weights, warned) ==
    [err |-> err, solver_calls |-> solver_calls, weights |-> weights, warned |-> warned]

\* PortfolioOptimizer.optimize_portfolio: neither branch assigns result for an
\* unknown constraint, so "return result.x" raises UnboundLocalError;
\* result.success is never read
OptimizePortfolio(num_assets, constraint, result) ==
    IF constraint \in Objectives
    THEN OptResult("none", 1, result.x, FALSE)
    ELSE OptResult("UnboundLocalError", 0, <<>>, FALSE)

\* as Infeasible, but the minimums are compared with 2.0
InfeasibleAboveTwo(total_min_weight) == 200 - total_min_weight < 0

\* the feasibility check: remaining_weight = 1.0 - total_min_weight < 0
Infeasible(total_min_weight) == 100 - total_min_weight < 0

\* result.x under the bounds (min, 1): every asset holds its minimum and the
\* rest is placed as result.x places it
WithinBounds(mins, x) ==
    [i \in 1..Len(x) |-> mins[i] + (x[i] * (100 - SumSeq(mins))) \div 100]

\* the part the two minimum-allocation optimizers share after their checks:
\* a result that is not a success is raised as an Exception
SolveWithBounds(constraint, mins, result) ==
    IF constraint \notin Objectives THEN OptResult("UnboundLocalError", 0, <<>>, FALSE)
    ELSE IF result.success THEN OptResult("none", 1, WithinBounds(mins, result.x), FALSE)
    ELSE OptResult("Exception", 1, <<>>, FALSE)

\* PortfolioOptimizer.optimize_with_minimum_allocation
OptimizeWithMinimumAllocation(num_assets, constraint, min_allocation, result) ==
    IF Infeasible(min_allocation * num_assets)
    THEN OptResult("ValueError", 0, <<>>, FALSE)
    ELSE SolveWithBounds(constraint, [i \in 1..num_assets |-> min_allocation], result)

\* the default minimum allocation 0.01
DefaultMinAllocation == 1

\* PortfolioOptimizer.optimize_with_custom_minimum_allocation; min_allocations
\* is None or Some(list)
OptimizeWithCustomMinimumAllocation(num_assets, constraint, min_allocations, result) ==
    IF min_allocations = None
    THEN OptimizeWithMinimumAllocation(num_assets, constraint, DefaultMinAllocation, result)
    ELSE IF Len(min_allocations.val) # num_assets THEN OptResult("ValueError", 0, <<>>, FALSE)
    ELSE IF Infeasible(SumSeq(min_allocations.val)) THEN OptResult("ValueError", 0, <<>>, FALSE)
    ELSE SolveWithBounds(constraint, min_allocations.val, result)

\* minimum allocations per asset the operations are called with, in percent
MinAllocations == {0, 1, 30, 34, 50, 60}
MinAllocationLists ==
    { <<60>>, <<101>>, <<50, 50>>, <<60, 60>>, <<10, 20>>, <<30, 30, 30>>, <<40, 40, 40>>,
      <<10, 10, 10, 10>>, <<30, 30, 30, 30>> }

(***************************************************************************)
(* The /api/optimize handlers and the analysis entry points.  A request is *)
(* the number of tickers, the constraint, the lookback, the min_exposure   *)
(* field, whether loading the returns succeeds, and the outcome of each    *)
(* minimize call that can happen.  The response is modelled up to the      *)
(* alternative allocation; the frontier data it also carries is not.       *)
(***************************************************************************)
\* the min_exposure field of a request: absent, a number, a list, or
\* anything else (a string, say)
Exposure(kind, num, list) == [kind |-> kind, num |-> num, list |-> list]
NumberExposure(m) == Exposure("number", m, <<>>)
NoExposure == Exposure("None", 0, <<>>)

MinExposureArgs ==
    {NoExposure, Exposure("other", 0, <<>>)}
    \cup {NumberExposure(m) : m \in MinAllocations}
    \cup {Exposure("list", 0, l) : l \in MinAllocationLists}

AsRat(x) == [i \in 1..Len(x) |-> <<x[i], 1>>]

\* np.array([1/len(tickers)] * len(tickers)), in percent
EqualWeights(num_assets) == [i \in 1..num_assets |-> Rat(100, num_assets)]

Response(status, error, alt_err, alternative, alt_solver_calls, weights, used) ==
    [status |-> status, error |-> error, alt_err |-> alt_err,
     alternative |-> alternative, alt_solver_calls |-> alt_solver_calls,
     alternative_weights |-> weights, min_exposure_used |-> used]

ErrorResponse(status, error) ==
    Response(status, error, "none", "none", 0, <<>>, NoExposure)

\* the steps both handlers run before the alternative allocation: "none", or
\* the error response they end with.  load_err is the exception the
\* constructor of PortfolioOptimizer raised in fetch_data ("none" when the
\* returns were loaded); the handler answers 500 with its message
OptimizePrelude(num_tickers, constraint, time_period, load_err, r_opt) ==
    IF num_tickers = 0 THEN Some(ErrorResponse(400, "Please provide tickers"))
    ELSE IF PeriodInvalid(time_period)
    THEN Some(ErrorResponse(400, "Time period must be between 1 and 10 years"))
    ELSE IF load_err # "none" THEN Some(ErrorResponse(500, load_err))
    ELSE IF OptimizePortfolio(num_tickers, constraint, r_opt).err # "none"
    THEN Some(ErrorResponse(500, OptimizePortfolio(num_tickers, constraint, r_opt).err))
    ELSE None

\* the try block of routes.py: the alternative allocation as requested
RoutesAlternative(num_tickers, constraint, min_exposure, r_alt) ==
    IF min_exposure.kind = "None"
    THEN OptimizeWithMinimumAllocation(num_tickers, constraint, DefaultMinAllocation, r_alt)
    ELSE IF min_exposure.kind = "number"
    THEN OptimizeWithMinimumAllocation(num_tickers, constraint, min_exposure.num, r_alt)
    ELSE IF min_exposure.kind = "list"
    THEN OptimizeWithCustomMinimumAllocation(num_tickers, constraint,
                                             Some(min_exposure.list), r_alt)
    ELSE OptResult("ValueError", 0, <<>>, FALSE)

\* min_exposure_used as routes.py reports it when the try block succeeds
RoutesExposureUsed(min_exposure) ==
    IF min_exposure.kind = "None" THEN NumberExposure(DefaultMinAllocation) ELSE min_exposure

\* web_app/routes.py optimize_portfolio: on any exception of the try block the
\* optimization is run again with the default minimum allocation
RoutesOptimize(num_tickers, constraint, time_period, min_exposure, load_err, r_opt, r_alt, r_again) ==
    LET pre == OptimizePrelude(num_tickers, constraint, time_period, load_err, r_opt)
        alt == RoutesAlternative(num_tickers, constraint, min_exposure, r_alt)
        again == OptimizeWithMinimumAllocation(num_tickers, constraint,
                                               DefaultMinAllocation, r_again)
    IN  IF pre # None THEN pre.val
        ELSE IF alt.err = "none"
        THEN Response(200, "none", "none", "requested", alt.solver_calls,
                      AsRat(alt.weights), RoutesExposureUsed(min_exposure))
        ELSE IF again.err = "none"
        THEN Response(200, "none", alt.err, "default_rerun",
                      alt.solver_calls + again.solver_calls,
                      AsRat(again.weights), NumberExposure(DefaultMinAllocation))
        ELSE Response(500, again.err, alt.err, "none",
                      alt.solver_calls + again.solver_calls, <<>>, NoExposure)

\* the try block of app.py: a list is used only when it has one entry per ticker
AppAlternative(num_tickers, constraint, min_exposure, r_alt) ==
    IF min_exposure.kind = "None"
    THEN OptimizeWithMinimumAllocation(num_tickers, constraint, DefaultMinAllocation, r_alt)
    ELSE IF min_exposure.kind = "number"
    THEN OptimizeWithMinimumAllocation(num_tickers, constraint, min_exposure.num, r_alt)
    ELSE IF min_exposure.kind = "list" /\ Len(min_exposure.list) = num_tickers
    THEN OptimizeWithCustomMinimumAllocation(num_tickers, constraint,
                                             Some(min_exposure.list), r_alt)
    ELSE OptResult("ValueError", 0, <<>>, FALSE)

\* min_exposure_used as app.py reports it: the field of the request, or 0.01
AppExposureUsed(min_exposure) ==
    IF min_exposure.kind = "None" THEN NumberExposure(DefaultMinAllocation) ELSE min_exposure

\* web_app/app.py optimize_portfolio: on any exception of the try block the
\* alternative allocation is the equal-weight portfolio
AppOptimize(num_tickers, constraint, time_period, min_exposure, load_err, r_opt, r_alt) ==
    LET pre == OptimizePrelude(num_tickers, constraint, time_period, load_err, r_opt)
        alt == AppAlternative(num_tickers, constraint, min_exposure, r_alt)
    IN  IF pre # None THEN pre.val
        ELSE IF alt.err = "none"
        THEN Response(200, "none", "none", "requested", alt.solver_calls,
                      AsRat(alt.weights), AppExposureUsed(min_exposure))
        ELSE Response(200, "none", alt.err, "equal_weights", alt.solver_calls,
                      EqualWeights(num_tickers), AppExposureUsed(min_exposure))

\* how an analysis entry point ended: the exception ("none" when it returned)
\* and whether the returns provider was asked for data before it
Analysis(err, fetched) == [err |-> err, fetched |-> fetched]

\* analyze_portfolio_with_period: every exception leaves as
\* Exception("Portfolio analysis failed: ...")
AnalyzePortfolioWithPeriod(num_tickers, num_weights, time_period, load_err) ==
    IF num_tickers = 0 \/ num_weights = 0 THEN Analysis("Exception", FALSE)
    ELSE IF num_tickers # num_weights THEN Analysis("Exception", FALSE)
    ELSE IF PeriodInvalid(time_period) THEN Analysis("Exception", FALSE)
    ELSE IF load_err # "none" THEN Analysis("Exception", TRUE)
    ELSE Analysis("none", TRUE)

\* analyze_portfolio_black_litterman with views=None and market_caps=None:
\* the constructor divides by len(tickers), fetch_data comes next, whatever
\* time_period is, and lets the exception of the data manager (data_err)
\* through, and the weights are first used in the current portfolio's
\* statistics
AnalyzePortfolioBlackLitterman(num_tickers, num_weights, time_period, data_err) ==
    IF num_tickers = 0 THEN Analysis("ZeroDivisionError", FALSE)
    ELSE IF data_err # "none" THEN Analysis(data_err, TRUE)
    ELSE IF num_weights # num_tickers THEN Analysis("ValueError", TRUE)
    ELSE Analysis("none", TRUE)

\* a call on the optimizer side: the operation, its arguments, its outcome
OptCall(op, arg, out) == [op |-> op, arg |-> arg, out |-> out]

Ready == OptCall("ready", NoArg, NoArg)

OptInit == opt_call = Ready

CallOptimizePortfolio ==
    /\ opt_call = Ready
    /\ \E n \in 1..MaxAssets, constraint \in ConstraintArgs :
       \E result \in MinimizeResults(n) :
           /\ opt_call' = OptCall("optimize_portfolio",
                                  [num_assets |-> n, constraint |-> constraint,
                                   result |-> result],
                                  OptimizePortfolio(n, constraint, result))
           /\ UNCHANGED not_opt

CallOptimizeWithMinimumAllocation ==
    /\ opt_call = Ready
    /\ \E n \in 1..MaxAssets, constraint \in ConstraintArgs, m \in MinAllocations :
       \E result \in MinimizeResults(n) :
           /\ opt_call' = OptCall("optimize_with_minimum_allocation",
                                  [num_assets |-> n, constraint |-> constraint,
                                   min_allocation |-> m, result |-> result],
                                  OptimizeWithMinimumAllocation(n, constraint, m, result))
           /\ UNCHANGED not_opt

CallOptimizeWithCustomMinimumAllocation ==
    /\ opt_call = Ready
    /\ \E n \in 1..MaxAssets, constraint \in ConstraintArgs,
          mins \in {None} \cup {Some(l) : l \in MinAllocationLists} :
       \E result \in MinimizeResults(n) :
           /\ opt_call' = OptCall("optimize_with_custom_minimum_allocation",
                                  [num_assets |-> n, constraint |-> constraint,
                                   min_allocations |-> mins, result |-> result],
                                  OptimizeWithCustomMinimumAllocation(n, constraint, mins, result))
           /\ UNCHANGED not_opt

(***************************************************************************)
(* PortfolioOptimizer: statistics.  Returns and volatilities are rationals *)
(* in percent, weights are in percent.                                     *)
(***************************************************************************)
\* a <= b for rationals with positive denominators
RLeq(a, b) == a[1] * b[2] <= b[1] * a[2]
RLess(a, b) == a[1] * b[2] < b[1] * a[2]
RSub(a, b) == Rat(a[1] * b[2] - b[1] * a[2], a[2] * b[2])

\* annual mean returns and standard deviations of the assets, in percent; the
\* last but one asset has a constant price
AssetMeans == <<4, 5, 7, 6>>
AssetStd == <<3, 4, 0, 5>>

\* mean_returns and cov_matrix of an optimizer over the first n assets, with
\* uncorrelated assets; nan tells that every mean and every covariance is NaN
\* in place of the number given here
Moments(n, nan) ==
    [mean_returns |-> SubSeq(AssetMeans, 1, n),
     cov_matrix |-> [i \in 1..n |-> [j \in 1..n |->
                        IF i = j THEN AssetStd[i] * AssetStd[i] ELSE 0]],
     nan |-> nan]

MomentsArgs(n) == {None, Some(Moments(n, FALSE)), Some(Moments(n, TRUE))}

\* the integer square root of n > 0 by Newton's iteration from r
RECURSIVE SqrtFrom(_, _)
SqrtFrom(n, r) ==
    IF r <= n \div r /\ r + 1 > n \div (r + 1) THEN r
    ELSE SqrtFrom(n, (r + n \div r) \div 2)

\* np.sqrt of a perfect square
ISqrt(n) == IF n = 0 THEN 0 ELSE SqrtFrom(n, n)

\* np.sum(mean_returns * weights), in units of 0.0001
Dot(a, b) == SumSeq([i \in 1..Len(a) |-> a[i] * b[i]])

\* np.dot(weights.T, np.dot(cov_matrix, weights)), in units of 0.00000001
Variance(weights, cov) ==
    SumSeq([i \in 1..Len(weights) |->
              weights[i] * SumSeq([j \in 1..Len(weights) |-> cov[i][j] * weights[j]])])

\* weights / np.sum(weights) for a sum other than 0
Normalised(weights) ==
    [i \in 1..Len(weights) |-> (100 * weights[i]) \div SumSeq(weights)]

\* the weights after "if abs(np.sum(weights) - 1.0) > 1e-6"
StatsWeights(weights) ==
    IF SumSeq(weights) = 100 \/ SumSeq(weights) = 0 THEN weights
    ELSE Normalised(weights)

\* as StatsNaN, but NaN goes unnoticed
StatsNeverNaN(moments, weights) == FALSE

\* np.isnan(portfolio_return) or np.isnan(portfolio_std): the sample holds a
\* NaN, or the weights were divided by a sum of 0
StatsNaN(moments, weights) == moments.nan \/ SumSeq(weights) = 0

\* get_inflation_rate: 2.5 percent
InflationNum == 5
InflationDen == 2

StatsRecord(ret, real_ret, vol, sharpe, real_sharpe, inflation) ==
    [return |-> ret, real_return |-> real_ret, volatility |-> vol,
     sharpe_ratio |-> sharpe, real_sharpe_ratio |-> real_sharpe,
     inflation_rate |-> inflation]

\* the fallback statistics of portfolio_stats
FallbackStats ==
    StatsRecord(<<8, 1>>, <<11, 2>>, <<15, 1>>, <<53, 100>>, <<37, 100>>, <<5, 2>>)

\* the statistics computed from the moments
ComputedStats(moments, weights) ==
    LET w == StatsWeights(weights)
        portfolio_return == Rat(Dot(moments.mean_returns, w), 100)
        portfolio_std == Rat(ISqrt(Variance(w, moments.cov_matrix)), 100)
        inflation_rate == Rat(InflationNum, InflationDen)
        real_return == RSub(portfolio_return, inflation_rate)
    IN  StatsRecord(portfolio_return, real_return, portfolio_std,
                    IF portfolio_std[1] > 0 THEN RDiv(portfolio_return, portfolio_std)
                    ELSE <<0, 1>>,
                    IF portfolio_std[1] > 0 THEN RDiv(real_return, portfolio_std)
                    ELSE <<0, 1>>,
                    inflation_rate)

\* PortfolioOptimizer.portfolio_stats: every exception of the try block ends
\* in the fallback statistics
PortfolioStats(num_tickers, moments, weights) ==
    IF Len(weights) # num_tickers THEN FallbackStats
    ELSE IF moments = None THEN FallbackStats
    ELSE IF StatsNaN(moments.val, weights) THEN FallbackStats
    ELSE ComputedStats(moments.val, weights)

\* weight vectors portfolio_stats is called with: all in one asset, half of
\* that, the first two assets in equal parts, all zero, one entry too many
StatsWeightArgs(n) ==
    CornerWeights(n)
      \cup { [i \in 1..n |-> IF i = 1 THEN 50 ELSE 0],
             [i \in 1..n |-> IF i <= 2 THEN 50 ELSE 0],
             [i \in 1..n |-> 0],
             [i \in 1..(n + 1) |-> IF i = 1 THEN 100 ELSE 0] }

CallPortfolioStats ==
    /\ opt_call = Ready
    /\ \E n \in 1..MaxAssets :
       \E moments \in MomentsArgs(n), weights \in StatsWeightArgs(n) :
           /\ opt_call' = OptCall("portfolio_stats",
                                  [num_tickers |-> n, moments |-> moments, weights |-> weights],
                                  [err |-> "none", stats |-> PortfolioStats(n, moments, weights)])
           /\ UNCHANGED not_opt

(***************************************************************************)
(* PortfolioOptimizer: the efficient frontier.                             *)
(***************************************************************************)
\* the outcome of minimize for one target: result.x is read on success only
SweepResults(n) ==
    { [status |-> "success", x |-> w] : w \in CornerWeights(n) }
      \cup { [status |-> st, x |-> <<>>] : st \in {"failure", "raise"} }

\* np.random.random(len(self.tickers)), up to a common factor
RandomDraws(n) == { [i \in 1..n |-> 1], [i \in 1..n |-> i] }

\* the draws of one fallback frontier: the same draw for every point, or the
\* two draws in turn
DrawSequences(n, num_portfolios) ==
    { [k \in 1..num_portfolios |-> d] : d \in RandomDraws(n) }
      \cup { [k \in 1..num_portfolios |->
                IF k % 2 = 1 THEN [i \in 1..n |-> i] ELSE [i \in 1..n |-> 1]] }

\* as NormalisedDraw, but the draw is used as it came
RawDraw(draw) == [i \in 1..Len(draw) |-> Rat(draw[i], 1)]

\* weights / np.sum(weights), in percent
NormalisedDraw(draw) == [i \in 1..Len(draw) |-> Rat(100 * draw[i], SumSeq(draw))]

\* a point of a frontier
FrontierPoint(ret, vol, sharpe, weights) ==
    [return |-> ret, volatility |-> vol, sharpe_ratio |-> sharpe, weights |-> weights]

\* point i of the fallback frontier: 5 to 20 percent return, 10 to 30 percent
\* volatility
FallbackPoint(i, num_portfolios, draw) ==
    LET return_val == Rat(5 * num_portfolios + 15 * i, num_portfolios)
        volatility == Rat(10 * num_portfolios + 20 * i, num_portfolios)
    IN  FrontierPoint(return_val, volatility, RDiv(return_val, volatility),
                      NormalisedDraw(draw))

\* _generate_fallback_efficient_frontier
FallbackFrontier(num_portfolios, draws) ==
    [k \in 1..num_portfolios |-> FallbackPoint(k - 1, num_portfolios, draws[k])]

MinOf(s) == CHOOSE m \in {s[i] : i \in 1..Len(s)} : \A i \in 1..Len(s) : m <= s[i]
MaxOf(s) == CHOOSE m \in {s[i] : i \in 1..Len(s)} : \A i \in 1..Len(s) : m >= s[i]

\* the checks before the sweep: moments present, neither min_ret nor max_ret
\* NaN, and min_ret < max_ret
SweepRuns(moments) ==
    /\ moments # None
    /\ ~moments.val.nan
    /\ MinOf(moments.val.mean_returns) < MaxOf(moments.val.mean_returns)

\* the point appended for a target whose solve succeeded
SweepPoint(num_tickers, moments, x) ==
    LET stats == PortfolioStats(num_tickers, moments, x)
    IN  FrontierPoint(stats.return, stats.volatility, stats.sharpe_ratio, AsRat(x))

\* PortfolioOptimizer.generate_efficient_frontier: the returned list, whether
\* it is the fallback frontier, and the targets the points belong to
GenerateEfficientFrontier(num_tickers, moments, num_portfolios, results, draws) ==
    LET hits == IF SweepRuns(moments)
                THEN Converged([k \in 1..num_portfolios |->
                                  results[k].status = "success"], 1)
                ELSE <<>>
    IN  IF hits = <<>>
        THEN [value |-> FallbackFrontier(num_portfolios, draws),
              fallback |-> TRUE, targets |-> <<>>]
        ELSE [value |-> [i \in 1..Len(hits) |->
                           SweepPoint(num_tickers, moments, results[hits[i]].x)],
              fallback |-> FALSE, targets |-> hits]

\* max(efficient_portfolios, key=lambda x: x['sharpe_ratio']): the first of
\* the points with the largest sharpe_ratio
MaxBySharpe(points) ==
    LET best == CHOOSE i \in 1..Len(points) :
                  /\ \A j \in 1..Len(points) :
                        RLeq(points[j].sharpe_ratio, points[i].sharpe_ratio)
                  /\ \A j \in 1..(i - 1) :
                        RLess(points[j].sharpe_ratio, points[i].sharpe_ratio)
    IN  points[best]

\* the Capital Allocation Line has CalSteps + 1 points
CalSteps == 20

\* the Capital Allocation Line through the risk-free rate and the tangency
\* portfolio
CapitalAllocationLine(tangency, risk_free_rate) ==
    [k \in 1..(CalSteps + 1) |->
       LET risk_free_weight == Rat(k - 1, CalSteps)
           portfolio_weight == RSub(<<1, 1>>, risk_free_weight)
       IN  [return |-> RAdd(RMul(<<risk_free_rate, 1>>, risk_free_weight),
                            RMul(tangency.return, portfolio_weight)),
            volatility |-> RMul(tangency.volatility, portfolio_weight),
            risk_free_weight |-> risk_free_weight,
            portfolio_weight |-> portfolio_weight,
            type |-> "cal"]]

\* PortfolioOptimizer.generate_efficient_frontier_with_risk_free for
\* num_portfolios >= 1
GenerateEfficientFrontierWithRiskFree(num_tickers, moments, num_portfolios, results, draws, risk_free_rate) ==
    LET frontier == GenerateEfficientFrontier(num_tickers, moments, num_portfolios,
                                              results, draws)
        max_sharpe_portfolio == MaxBySharpe(frontier.value)
    IN  [value |-> [efficient_frontier |-> frontier.value,
                    capital_allocation_line |->
                        CapitalAllocationLine(max_sharpe_portfolio, risk_free_rate),
                    tangency_portfolio |-> max_sharpe_portfolio,
                    risk_free_rate |-> risk_free_rate],
         fallback |-> frontier.fallback, targets |-> frontier.targets]

\* the risk_free_rate argument, in percent: 0, the default 2, and 3
RiskFreeRates == {0, 2, 3}

CallGenerateEfficientFrontier ==
    /\ opt_call = Ready
    /\ \E n \in 1..MaxAssets :
       \E moments \in MomentsArgs(n), results \in [1..NumPortfolios -> SweepResults(n)],
          draws \in DrawSequences(n, NumPortfolios) :
           /\ opt_call' =
                OptCall("generate_efficient_frontier",
                        [num_tickers |-> n, moments |-> moments,
                         num_portfolios |-> NumPortfolios, results |-> results],
                        [err |-> "none"] @@
                          GenerateEfficientFrontier(n, moments, NumPortfolios, results, draws))
           /\ UNCHANGED not_opt

CallGenerateEfficientFrontierWithRiskFree ==
    /\ opt_call = Ready
    /\ \E n \in 1..MaxAssets, risk_free_rate \in RiskFreeRates :
       \E moments \in MomentsArgs(n), results \in [1..NumPortfolios -> SweepResults(n)],
          draws \in DrawSequences(n, NumPortfolios) :
           /\ opt_call' =
                OptCall("generate_efficient_frontier_with_risk_free",
                        [num_tickers |-> n, moments |-> moments,
                         num_portfolios |-> NumPortfolios, results |-> results,
                         risk_free_rate |-> risk_free_rate],
                        [err |-> "none"] @@
                          GenerateEfficientFrontierWithRiskFree(n, moments, NumPortfolios,
                                                                results, draws, risk_free_rate))
           /\ UNCHANGED not_opt

(***************************************************************************)
(* analyze_portfolio_black_litterman without views, after the fetch: the   *)
(* equilibrium returns, the statistics of the current weights, the         *)
(* max-Sharpe problem handed to the solver and the statistics of its       *)
(* solution.                                                               *)
(***************************************************************************)
\* Pi = delta * Sigma * w_market with market weights 1/n each, in percent
AnalysisEquilibrium(cov) ==
    [i \in 1..Len(cov) |->
       RMul(Rat(DeltaNum, DeltaDen), Rat(SumSeq(cov[i]), 100 * Len(cov)))]

\* np.sum(returns * weights), in percent
WeightedReturn(returns, weights) ==
    RSum([i \in 1..Len(weights) |-> RMul(returns[i], Rat(weights[i], 100))])

\* np.sqrt(np.dot(weights, np.dot(cov, weights))), in percent
Volatility(cov, weights) == Rat(ISqrt(Variance(weights, cov)), 100)

\* a / b in floating point for b >= 0: a zero divisor gives inf, -inf or nan,
\* written <<1, 0>>, <<-1, 0>> and <<0, 0>>
FloatDiv(a, b) ==
    IF b[1] # 0 THEN RDiv(a, b)
    ELSE <<(IF a[1] > 0 THEN 1 ELSE IF a[1] < 0 THEN -1 ELSE 0), 0>>

\* current_stats of analyze_portfolio_black_litterman
CurrentStats(returns, cov, weights, risk_free_rate) ==
    LET ret == WeightedReturn(returns, weights)
        vol == Volatility(cov, weights)
    IN  [return |-> ret, volatility |-> vol,
         sharpe_ratio |-> FloatDiv(RSub(ret, <<risk_free_rate, 1>>), vol)]

\* BlackLittermanModel.portfolio_stats on the given moments
BLStats(returns, cov, weights, risk_free_rate) ==
    LET portfolio_return == WeightedReturn(returns, weights)
        portfolio_vol == Volatility(cov, weights)
        inflation_rate == Rat(InflationNum, InflationDen)
        real_return == RSub(portfolio_return, inflation_rate)
    IN  StatsRecord(portfolio_return, real_return, portfolio_vol,
                    IF portfolio_vol[1] > 0
                    THEN RDiv(RSub(portfolio_return, <<risk_free_rate, 1>>), portfolio_vol)
                    ELSE <<0, 1>>,
                    IF portfolio_vol[1] > 0 THEN RDiv(real_return, portfolio_vol)
                    ELSE <<0, 1>>,
                    inflation_rate)

\* what an optimize operation hands to minimize: the moments, the rate
\* subtracted from the return in the Sharpe ratio, what the ratio is at
\* volatility 0, the bounds of each weight, and the initial guess
Problem(returns, cov, risk_free_rate, zero_volatility) ==
    [returns |-> returns, cov |-> cov,
     objective |-> [kind |-> "negative_sharpe", risk_free_rate |-> risk_free_rate,
                    zero_volatility |-> zero_volatility],
     bounds |-> <<0, 100>>, sum_to_one |-> TRUE,
     initial_weights |-> EqualWeights(Len(returns))]

\* the max_sharpe problem of BlackLittermanModel.optimize_portfolio
BLMaxSharpeProblem(returns, cov, risk_free_rate) ==
    Problem(returns, cov, risk_free_rate, "float")

\* the max_sharpe problem of PortfolioOptimizer.optimize_portfolio: the
\* objective is -portfolio_stats(weights)['sharpe_ratio']
MaxSharpeProblem(returns, cov) == Problem(returns, cov, 0, "zero")

\* the Sharpe ratio the objective of a problem gives to weights
SharpeOf(problem, weights) ==
    LET ret == WeightedReturn(problem.returns, weights)
        vol == Volatility(problem.cov, weights)
        excess == RSub(ret, <<problem.objective.risk_free_rate, 1>>)
    IN  IF vol[1] = 0 /\ problem.objective.zero_volatility = "zero" THEN <<0, 1>>
        ELSE FloatDiv(excess, vol)

\* the weight vectors a solve chooses from, all of them within the bounds and
\* summing to 1: everything in one asset, or two assets in equal parts
Candidates(n) == { w \in [1..n -> {0, 50, 100}] : SumSeq(w) = 100 }

\* a float that is nan
IsNaN(a) == a[1] = 0 /\ a[2] = 0

\* a <= b on floats: false as soon as one of them is nan
FloatLeq(a, b) ==
    /\ ~IsNaN(a)
    /\ ~IsNaN(b)
    /\ IF a[2] = 0 /\ b[2] = 0 THEN a[1] <= b[1] ELSE RLeq(a, b)

\* minimize on a problem: a candidate where the objective is a number and no
\* other candidate has a smaller one
Solve(problem) ==
    CHOOSE w \in Candidates(Len(problem.returns)) :
        /\ ~IsNaN(SharpeOf(problem, w))
        /\ \A v \in Candidates(Len(problem.returns)) :
              IsNaN(SharpeOf(problem, v))
                \/ FloatLeq(SharpeOf(problem, v), SharpeOf(problem, w))

\* the current weights the analysis is called with: all in one asset, half of
\* that, the first two assets in equal parts, all zero
CurrentWeightArgs(n) ==
    CornerWeights(n)
      \cup { [i \in 1..n |-> IF i = 1 THEN 50 ELSE 0],
             [i \in 1..n |-> IF i <= 2 THEN 50 ELSE 0],
             [i \in 1..n |-> 0] }

BlackLittermanAnalysis(cov, weights, risk_free_rate) ==
    LET equilibrium == AnalysisEquilibrium(cov)
        problem == BLMaxSharpeProblem(equilibrium, cov, risk_free_rate)
        optimal_weights == Solve(problem)
    IN  [err |-> "none",
         equilibrium_returns |-> equilibrium,
         current_stats |-> CurrentStats(equilibrium, cov, weights, risk_free_rate),
         problem |-> problem,
         optimal_weights |-> optimal_weights,
         optimal_stats |-> BLStats(equilibrium, cov, optimal_weights, risk_free_rate)]

CallBlackLittermanAnalysis ==
    /\ opt_call = Ready
    /\ \E n \in 1..MaxAssets, risk_free_rate \in RiskFreeRates :
       \E weights \in CurrentWeightArgs(n) :
           /\ opt_call' =
                OptCall("black_litterman_analysis",
                        [num_tickers |-> n, cov_matrix |-> Moments(n, FALSE).cov_matrix,
                         weights |-> weights, risk_free_rate |-> risk_free_rate],
                        BlackLittermanAnalysis(Moments(n, FALSE).cov_matrix, weights,
                                               risk_free_rate))
           /\ UNCHANGED not_opt

\* what PortfolioOptimizer.fetch_data raises ("none" when it returns): an
\* exception of the data manager is raised again, returns with fewer than
\* MinObservations rows raise Exception
FetchDataError(data_err, rows) ==
    IF data_err # "none" THEN data_err
    ELSE IF rows < MinObservations THEN "Exception"
    ELSE "none"

\* PortfolioOptimizer.fetch_data: the moments are assigned when nothing was
\* raised
OptimizerFetchData(num_tickers, data_err, rows) ==
    [err |-> FetchDataError(data_err, rows),
     moments |-> IF FetchDataError(data_err, rows) = "none"
                 THEN Some(Moments(num_tickers, FALSE)) ELSE None]

(***************************************************************************)
(* The calls that load returns.  PortfolioOptimizer.__init__ calls         *)
(* fetch_data, which goes through the shared DataManager: the call takes a *)
(* request slot, waits while the download runs (other steps can happen in  *)
(* between) and goes on when the returns or the exception come back.  The  *)
(* number of rows of the returns is an input of the step that takes them.  *)
(***************************************************************************)
\* the call enters fetch_data_efficient(tickers, time_period)
StartLoading(op, arg, ts, tp) ==
    \E found \in FoundFiles(ts, tp) :
    \E loaded \in Loads(ts, tp) :
        LET r == CHOOSE slot \in Requests : req[slot].pc = "idle" IN
        /\ \E slot \in Requests : req[slot].pc = "idle"
        /\ req' = [req EXCEPT ![r] = Begun(ts, tp, FALSE, loaded, found)]
        /\ opt_call' = OptCall("loading", [call |-> op, arg |-> arg, slot |-> r], NoArg)
        /\ UNCHANGED <<cache, bl_vars, retry>>

\* fetch_data_efficient has returned or raised in the call op
Loaded(op) ==
    /\ opt_call.op = "loading"
    /\ opt_call.arg.call = op
    /\ req[opt_call.arg.slot].pc = "done"

\* the exception the constructor of the optimizer leaves with, "none" when
\* the moments were assigned
LoadError(rows) == FetchDataError(req[opt_call.arg.slot].err, rows)

\* the call ends; its request slot is free again
FinishLoading(arg, out) ==
    /\ opt_call' = OptCall(opt_call.arg.call, arg, out)
    /\ req' = [req EXCEPT ![opt_call.arg.slot] = Idle]
    /\ UNCHANGED <<cache, bl_vars, retry>>

CallFetchData ==
    /\ opt_call = Ready
    /\ \E n \in 1..MaxAssets :
           StartLoading("fetch_data", [num_tickers |-> n],
                        RequestTickers(n), DefaultTimePeriod)

ReturnFetchData ==
    /\ Loaded("fetch_data")
    /\ \E rows \in RowCounts :
           LET n == opt_call.arg.arg.num_tickers
               data_err == req[opt_call.arg.slot].err
           IN  FinishLoading([num_tickers |-> n, data_ok |-> data_err = "none",
                              rows |-> rows],
                             OptimizerFetchData(n, data_err, rows))

\* routes.py optimize_portfolio up to PortfolioOptimizer(tickers, time_period):
\* a request without tickers or with a lookback out of range is answered at
\* once
CallRoutesOptimize ==
    /\ opt_call = Ready
    /\ \E n \in 0..MaxAssets, constraint \in ConstraintArgs, tp \in RequestPeriods,
          me \in MinExposureArgs :
           LET arg == [num_tickers |-> n, constraint |-> constraint,
                       time_period |-> tp, min_exposure |-> me]
           IN  IF n = 0 \/ PeriodInvalid(tp)
               THEN /\ opt_call' = OptCall("routes.optimize_portfolio", arg,
                                           RoutesOptimize(n, constraint, tp, me, "none",
                                                          NoArg, NoArg, NoArg))
                    /\ UNCHANGED not_opt
               ELSE StartLoading("routes.optimize_portfolio", arg, RequestTickers(n), tp)

\* routes.py optimize_portfolio from the return of the constructor
ReturnRoutesOptimize ==
    /\ Loaded("routes.optimize_portfolio")
    /\ LET arg == opt_call.arg.arg IN
       \E rows \in RowCounts :
           IF LoadError(rows) # "none"
           THEN FinishLoading(arg, RoutesOptimize(arg.num_tickers, arg.constraint,
                                                  arg.time_period, arg.min_exposure,
                                                  LoadError(rows),
                                                  NoArg, NoArg, NoArg))
           ELSE \E r_opt \in MinimizeResults(arg.num_tickers),
                   r_alt \in MinimizeResults(arg.num_tickers),
                   r_again \in MinimizeResults(arg.num_tickers) :
                    FinishLoading(arg, RoutesOptimize(arg.num_tickers, arg.constraint,
                                                      arg.time_period, arg.min_exposure,
                                                      "none", r_opt, r_alt, r_again))

\* app.py optimize_portfolio up to PortfolioOptimizer(tickers, time_period)
CallAppOptimize ==
    /\ opt_call = Ready
    /\ \E n \in 0..MaxAssets, constraint \in ConstraintArgs, tp \in RequestPeriods,
          me \in MinExposureArgs :
           LET arg == [num_tickers |-> n, constraint |-> constraint,
                       time_period |-> tp, min_exposure |-> me]
           IN  IF n = 0 \/ PeriodInvalid(tp)
               THEN /\ opt_call' = OptCall("app.optimize_portfolio", arg,
                                           AppOptimize(n, constraint, tp, me, "none",
                                                       NoArg, NoArg))
                    /\ UNCHANGED not_opt
               ELSE StartLoading("app.optimize_portfolio", arg, RequestTickers(n), tp)

\* app.py optimize_portfolio from the return of the constructor
ReturnAppOptimize ==
    /\ Loaded("app.optimize_portfolio")
    /\ LET arg == opt_call.arg.arg IN
       \E rows \in RowCounts :
           IF LoadError(rows) # "none"
           THEN FinishLoading(arg, AppOptimize(arg.num_tickers, arg.constraint,
                                               arg.time_period, arg.min_exposure,
                                               LoadError(rows),
                                               NoArg, NoArg))
           ELSE \E r_opt \in MinimizeResults(arg.num_tickers),
                   r_alt \in MinimizeResults(arg.num_tickers) :
                    FinishLoading(arg, AppOptimize(arg.num_tickers, arg.constraint,
                                                   arg.time_period, arg.min_exposure,
                                                   "none", r_opt, r_alt))

\* analyze_portfolio_with_period up to PortfolioOptimizer(tickers, time_period)
CallAnalyzePortfolioWithPeriod ==
    /\ opt_call = Ready
    /\ \E nt \in 0..MaxAssets, nw \in 0..MaxAssets, tp \in RequestPeriods :
           LET arg == [num_tickers |-> nt, num_weights |-> nw, time_period |-> tp]
               rejected == AnalyzePortfolioWithPeriod(nt, nw, tp, "none")
           IN  IF rejected.err # "none"
               THEN /\ opt_call' = OptCall("analyze_portfolio_with_period", arg, rejected)
                    /\ UNCHANGED not_opt
               ELSE StartLoading("analyze_portfolio_with_period", arg,
                                 RequestTickers(nt), tp)

\* analyze_portfolio_black_litterman up to the data manager's cache check:
\* the constructor, then bl_model.fetch_data(time_period) with the lookback
\* as it came
CallAnalyzePortfolioBlackLitterman ==
    /\ opt_call = Ready
    /\ \E nt \in 0..MaxAssets, nw \in 0..MaxAssets, tp \in RequestPeriods :
           LET arg == [num_tickers |-> nt, num_weights |-> nw, time_period |-> tp] IN
           IF nt = 0
           THEN /\ opt_call' = OptCall("analyze_portfolio_black_litterman", arg,
                                       AnalyzePortfolioBlackLitterman(nt, nw, tp, "none"))
                /\ UNCHANGED not_opt
           ELSE StartLoading("analyze_portfolio_black_litterman", arg,
                             RequestTickers(nt), tp)

\* analyze_portfolio_black_litterman from the return of the data manager
ReturnAnalyzePortfolioBlackLitterman ==
    /\ Loaded("analyze_portfolio_black_litterman")
    /\ LET arg == opt_call.arg.arg IN
       FinishLoading(arg, AnalyzePortfolioBlackLitterman(
                              arg.num_tickers, arg.num_weights, arg.time_period,
                              req[opt_call.arg.slot].err))

(***************************************************************************)
(* analyze_portfolio_gaps.  The loop constructs a PortfolioOptimizer for   *)
(* every catalogue entry that is not held, and each constructor loads its  *)
(* returns through the shared DataManager: the loop is split at every such *)
(* load.  The Sharpe ratio of a test portfolio comes from the download for *)
(* the candidate and is an input; the Sharpe ratio of the current          *)
(* portfolio is computed by portfolio_stats of the optimizer passed in.    *)
(***************************************************************************)
\* get_sector_etfs: the catalogue in the order of the dict
SectorEtfs ==
    <<"XLK", "XLF", "XLV", "XLE", "XLI", "XLY", "XLP", "XLB", "XLRE", "XLU",
      "VOO", "VTI", "VXUS", "VNQ", "GLD", "TLT", "AGG">>

\* "return recommendations[:5]"
TopRecommendations == 5

\* the lookback in years fetch_data asks the data manager for, for an
\* optimizer constructed with time_period: start_date is time_period * 365
\* days before end_date, and fetch_data takes max(1, days // 365)
OptimizerPeriod(time_period) ==
    LET days_back == time_period * 365
    IN  IF days_back \div 365 > 1 THEN days_back \div 365 ELSE 1

\* etf in current_tickers
InList(x, s) == \E i \in 1..Len(s) : s[i] = x

\* "if sharpe_improvement > 0"
Improves(sharpe_improvement) == sharpe_improvement[1] > 0

\* the catalogue entries whose test portfolio can beat the current one: the
\* ImprovingWindow entries from entry first on
ImprovingWindow == 6
WindowStarts == {7, 12}

\* the Sharpe ratios portfolio_stats of the test optimizer of catalogue entry
\* k may come to
TestSharpes(k, first) ==
    IF first <= k /\ k < first + ImprovingWindow
    THEN { <<5, 4>>, <<3, 2>>, <<2, 1>> }
    ELSE { <<5, 4>> }

\* the first catalogue entry from k on that is not in current_tickers, one
\* past the catalogue when there is none: "if etf not in current_tickers"
RECURSIVE NextCandidate(_, _)
NextCandidate(current_tickers, k) ==
    IF k > Len(SectorEtfs) THEN k
    ELSE IF InList(SectorEtfs[k], current_tickers) THEN NextCandidate(current_tickers, k + 1)
    ELSE k

\* as Continue, but a failure ends the loop
BreakLoop(k) == Len(SectorEtfs) + 1

\* "except: continue": the entry the loop goes on with after entry k failed
Continue(k) == k + 1

\* list.sort(key=sharpe_improvement, reverse=True): rec goes behind every
\* entry that is not smaller, so equal entries keep their order
RECURSIVE InsertDescending(_, _)
InsertDescending(rec, sorted) ==
    IF sorted = <<>> THEN <<rec>>
    ELSE IF RLess(Head(sorted).sharpe_improvement, rec.sharpe_improvement)
    THEN <<rec>> \o sorted
    ELSE <<Head(sorted)>> \o InsertDescending(rec, Tail(sorted))

RECURSIVE SortDescending(_)
SortDescending(s) ==
    IF s = <<>> THEN <<>>
    ELSE InsertDescending(s[Len(s)], SortDescending(SubSeq(s, 1, Len(s) - 1)))

\* as Top, but the list is not cut
Whole(recommendations) == recommendations

\* recommendations[:5]
Top(recommendations) ==
    SubSeq(recommendations, 1,
           IF Len(recommendations) < TopRecommendations
           THEN Len(recommendations) ELSE TopRecommendations)

\* what analyze_portfolio_gaps returns when its loop is over: appended is the
\* list before it is sorted and cut
GapsResult(loop) ==
    [err |-> "none",
     recommendations |-> Top(SortDescending(loop.recommendations)),
     appended |-> loop.recommendations,
     current_sharpe |-> loop.current_sharpe,
     evaluated |-> loop.evaluated]

\* the portfolios the analysis is made for: two stocks, or a stock and an
\* entry of the catalogue
GapTickers == { <<"AAPL", "MSFT">>, <<"AAPL", "XLF">> }

\* the lookbacks of the optimizer passed in
GapPeriods == {DefaultTimePeriod, MaxTimePeriod}

\* analyze_portfolio_gaps up to the loop over the catalogue, called by call
\* with arg: current_stats comes from the optimizer passed in, which was
\* constructed with time_period
EnterGaps(call, arg, current_tickers, current_weights, time_period, first) ==
    LET n == Len(current_tickers)
        current_stats == PortfolioStats(n, Some(Moments(n, FALSE)), current_weights)
    IN  opt_call' =
            OptCall("gaps",
                    [call |-> call, arg |-> arg,
                     current_tickers |-> current_tickers,
                     current_weights |-> current_weights,
                     current_period |-> OptimizerPeriod(time_period),
                     current_sharpe |-> current_stats.sharpe_ratio,
                     first |-> first, k |-> 1,
                     recommendations |-> <<>>, evaluated |-> <<>>, raised |-> FALSE],
                    NoArg)

CallAnalyzePortfolioGaps ==
    /\ opt_call = Ready
    /\ \E current_tickers \in GapTickers, time_period \in GapPeriods,
          first \in WindowStarts :
       \E current_weights \in CornerWeights(Len(current_tickers)) :
           /\ EnterGaps("analyze_portfolio_gaps",
                        [current_tickers |-> current_tickers,
                         current_weights |-> current_weights,
                         time_period |-> time_period, first |-> first],
                        current_tickers, current_weights, time_period, first)
           /\ UNCHANGED not_opt

\* the loop reaches the next entry that is not held and constructs
\* PortfolioOptimizer(test_tickers), which loads the returns of the test
\* portfolio over the default lookback through the shared data manager
GapsLoadCandidate ==
    /\ opt_call.op = "gaps"
    /\ LET loop == opt_call.arg
           k == NextCandidate(loop.current_tickers, loop.k)
       IN  /\ k <= Len(SectorEtfs)
           /\ StartLoading("analyze_portfolio_gaps",
                           [loop EXCEPT !.k = k,
                                        !.evaluated = Append(@, SectorEtfs[k]),
                                        !.raised = FALSE],
                           Append(loop.current_tickers, SectorEtfs[k]),
                           OptimizerPeriod(DefaultTimePeriod))

\* the loop goes on behind the entry it has dealt with
GapsGoOn(loop) ==
    /\ opt_call' = OptCall("gaps", loop, NoArg)
    /\ req' = [req EXCEPT ![opt_call.arg.slot] = Idle]
    /\ UNCHANGED <<cache, bl_vars, retry>>

\* the constructor of the test optimizer has returned or raised: an exception
\* is swallowed and the loop continues, otherwise the test portfolio is
\* recommended when its Sharpe ratio is above the current one
GapsTakeCandidate ==
    /\ Loaded("analyze_portfolio_gaps")
    /\ LET loop == opt_call.arg.arg
           k == loop.k
           data_err == req[opt_call.arg.slot].err
       IN
       \E rows \in (IF data_err = "none" THEN RowCounts ELSE {MinObservations}) :
           IF LoadError(rows) # "none"
           THEN GapsGoOn([loop EXCEPT !.k = Continue(k), !.raised = TRUE])
           ELSE \E sharpe_ratio \in TestSharpes(k, loop.first) :
                    LET sharpe_improvement == RSub(sharpe_ratio, loop.current_sharpe) IN
                    GapsGoOn([loop EXCEPT
                                !.k = k + 1,
                                !.recommendations =
                                    IF Improves(sharpe_improvement)
                                    THEN Append(@, [ticker |-> SectorEtfs[k],
                                                    sharpe_improvement |-> sharpe_improvement])
                                    ELSE @])

\* the loop is over: analyze_portfolio_gaps sorts and cuts the list and
\* returns, and so does analyze_portfolio_with_period when it made the call
ReturnAnalyzePortfolioGaps ==
    /\ opt_call.op = "gaps"
    /\ NextCandidate(opt_call.arg.current_tickers, opt_call.arg.k) > Len(SectorEtfs)
    /\ LET loop == opt_call.arg IN
       opt_call' =
           IF loop.call = "analyze_portfolio_gaps"
           THEN OptCall(loop.call, loop.arg, GapsResult(loop))
           ELSE OptCall(loop.call, loop.arg,
                        [err |-> "none", fetched |-> TRUE,
                         recommendations |-> GapsResult(loop).recommendations])
    /\ UNCHANGED not_opt

\* the weights of an analysis request: everything in the first asset
AnalysisWeights(num_weights) == [i \in 1..num_weights |-> IF i = 1 THEN 100 ELSE 0]

\* analyze_portfolio_with_period from the return of the constructor to the
\* loop of analyze_portfolio_gaps: an exception of the constructor leaves as
\* Exception, otherwise the statistics, the frontier and the optimum are
\* computed and analyze_portfolio_gaps is called with the optimizer
ContinueAnalyzePortfolioWithPeriod ==
    /\ Loaded("analyze_portfolio_with_period")
    /\ LET arg == opt_call.arg.arg
           data_err == req[opt_call.arg.slot].err
       IN
       \E rows \in (IF data_err = "none" THEN RowCounts ELSE {MinObservations}) :
           IF LoadError(rows) # "none"
           THEN FinishLoading(arg, AnalyzePortfolioWithPeriod(
                                       arg.num_tickers, arg.num_weights, arg.time_period,
                                       LoadError(rows)))
           ELSE \E first \in WindowStarts :
                    /\ EnterGaps("analyze_portfolio_with_period", arg,
                                 RequestTickers(arg.num_tickers),
                                 AnalysisWeights(arg.num_weights),
                                 arg.time_period, first)
                    /\ req' = [req EXCEPT ![opt_call.arg.slot] = Idle]
                    /\ UNCHANGED <<cache, bl_vars, retry>>

\* the call is over; the next one can be made
OptReturn ==
    /\ opt_call # Ready
    /\ opt_call.op \notin {"loading", "gaps"}
    /\ opt_call' = Ready
    /\ UNCHANGED not_opt

OptNext ==
    \/ CallOptimizePortfolio
    \/ CallOptimizeWithMinimumAllocation
    \/ CallOptimizeWithCustomMinimumAllocation
    \/ CallPortfolioStats
    \/ CallGenerateEfficientFrontier
    \/ CallGenerateEfficientFrontierWithRiskFree
    \/ CallBlackLittermanAnalysis
    \/ OptReturn

\* the request handlers, which load their returns through the data manager;
\* clear_cache can run at any time
WebNext ==
    \/ CallRoutesOptimize
    \/ ReturnRoutesOptimize
    \/ CallAppOptimize
    \/ ReturnAppOptimize
    \/ CallFetchData
    \/ ReturnFetchData
    \/ \E r \in Requests : FetchDataFinish(r)
    \/ ClearCache
    \/ OptReturn

\* the loop of analyze_portfolio_gaps, with the downloads it waits for
GapsLoopNext ==
    \/ GapsLoadCandidate
    \/ \E r \in Requests : FetchDataFinish(r)
    \/ GapsTakeCandidate
    \/ ReturnAnalyzePortfolioGaps
    \/ OptReturn

\* the analysis entry points
AnalysisNext ==
    \/ CallAnalyzePortfolioWithPeriod
    \/ ContinueAnalyzePortfolioWithPeriod
    \/ CallAnalyzePortfolioBlackLitterman
    \/ ReturnAnalyzePortfolioBlackLitterman
    \/ GapsLoopNext

(***************************************************************************)
(* Specifications: one per component; the other components stand still.    *)
(***************************************************************************)
Init == BLInit /\ DMInit /\ OptInit /\ RetryInit

SpecBL == Init /\ [][BLNext]_vars
SpecDM == Init /\ [][DMNext]_vars
SpecOpt == Init /\ [][OptNext]_vars
SpecRetry == Init /\ [][RetryNext]_vars
SpecWeb == Init /\ [][WebNext]_vars

\* the two frontier generators side by side
FrontierNext ==
    \/ BLFetchDataBegin
    \/ \E r \in Requests : FetchDataFinish(r)
    \/ BLFetchDataReturn
    \/ BLGenerateEfficientFrontier
    \/ CallGenerateEfficientFrontier
    \/ OptReturn

SpecFrontier == Init /\ [][FrontierNext]_vars

\* analyze_portfolio_gaps alone
GapsNext ==
    \/ CallAnalyzePortfolioGaps
    \/ GapsLoopNext

SpecAnalysis == Init /\ [][AnalysisNext]_vars
SpecGaps == Init /\ [][GapsNext]_vars

(***************************************************************************)
(* Properties.                                                             *)
(***************************************************************************)
\* the operations of the model that read the moments
ConsumerOps == {"optimize_portfolio", "portfolio_stats", "generate_efficient_frontier"}

\* C1: the posterior is discarded when the views change: an optimize_portfolio,
\* portfolio_stats or generate_efficient_frontier call that uses a posterior
\* uses one computed from the P, Q and Omega most recently stored by add_views.
C1_PosteriorFromCurrentViews ==
    (bl_call.op \in ConsumerOps /\ bl_call.used = "posterior")
        => /\ posterior_returns.val.P = P.val
           /\ posterior_returns.val.Q = Q.val
           /\ posterior_returns.val.Omega = Omega.val

\* C2: results appear only in the order data, equilibrium, views, posterior:
\* equilibrium_returns is never set while cov_matrix is unset, P/Q/Omega never
\* while equilibrium_returns is unset, the posterior never while P/Q/Omega are
\* unset, and calculate_posterior_returns before any views raises ValueError.
C2_StageOrder ==
    /\ equilibrium_returns # None => cov_matrix # None
    /\ (P # None \/ Q # None \/ Omega # None)
          => (equilibrium_returns # None /\ P # None /\ Q # None /\ Omega # None)
    /\ (posterior_returns # None \/ posterior_cov # None)
          => (P # None /\ posterior_returns # None /\ posterior_cov # None)
    /\ (bl_call.op = "calculate_posterior_returns" /\ P = None)
          => bl_call.err = "ValueError"

\* every stage has produced its result, the posterior last
C2_Witness ==
    /\ bl_call.op = "calculate_posterior_returns"
    /\ bl_call.err = "none"
    /\ posterior_returns # None
    /\ Len(P.val) = 2

\* the operations that run calculate_equilibrium_returns, directly or when
\* equilibrium_returns is unset
EquilibriumOps ==
    {"calculate_equilibrium_returns", "add_views"} \cup ConsumerOps

\* C3: calculate_equilibrium_returns before any data was fetched fails with
\* ValueError and leaves equilibrium_returns unset, and so do add_views,
\* optimize_portfolio, portfolio_stats and generate_efficient_frontier.
C3_NoDataNoEquilibrium ==
    (bl_call.op \in EquilibriumOps /\ cov_matrix = None)
        => (bl_call.err = "ValueError" /\ equilibrium_returns = None /\ ~bl_call.solved)

\* optimize_portfolio was called on a model without data
C3_Witness ==
    /\ bl_call.op = "optimize_portfolio"
    /\ bl_call.arg.constraint = "max_sharpe"
    /\ cov_matrix = None
    /\ bl_call.err = "ValueError"

\* C4: at most one fetch is in flight per cache key: two requests for the same
\* ticker set and lookback are never both inside the external download.
C4_AtMostOneFetchPerKey ==
    \A r1 \in Requests, r2 \in Requests :
        (r1 # r2 /\ req[r1].pc = "fetching" /\ req[r2].pc = "fetching")
            => CachePath(req[r1].tickers, req[r1].time_period)
                   # CachePath(req[r2].tickers, req[r2].time_period)

\* C5: column j of the returns matrix fetch_data returns is the series of
\* tickers[j], on a fresh fetch and on a cache hit alike.
C5_ColumnsFollowTickers ==
    \A r \in Requests :
        (req[r].pc = "done" /\ req[r].err = "none")
            => req[r].data.val.columns = req[r].tickers

MinAllocationOps ==
    {"optimize_with_minimum_allocation", "optimize_with_custom_minimum_allocation"}

\* the minimums of the call add up to more than 100 percent
CallInfeasible ==
    \/ /\ opt_call.op = "optimize_with_minimum_allocation"
       /\ opt_call.arg.min_allocation * opt_call.arg.num_assets > 100
    \/ /\ opt_call.op = "optimize_with_custom_minimum_allocation"
       /\ opt_call.arg.min_allocations # None
       /\ SumSeq(opt_call.arg.min_allocations.val) > 100

\* C6: an infeasible minimum-allocation configuration makes both
\* minimum-allocation optimizers raise ValueError before the solver is called.
C6_InfeasibleRejectedBeforeSolver ==
    CallInfeasible => (opt_call.out.err = "ValueError" /\ opt_call.out.solver_calls = 0)

\* per-asset minimums of the right length that add up to 120 percent
C6_Witness ==
    /\ opt_call.op = "optimize_with_custom_minimum_allocation"
    /\ opt_call.arg.constraint = "max_sharpe"
    /\ opt_call.arg.min_allocations = Some(<<40, 40, 40>>)
    /\ opt_call.arg.num_assets = 3
    /\ opt_call.out.err = "ValueError"

OptimizeRoutes == {"routes.optimize_portfolio", "app.optimize_portfolio"}

\* C7: a validation error for the minimum-exposure input of an optimize request
\* is surfaced as an error and never retried: no second optimization is run
\* and no substituted allocation is returned.
C7_ValidationErrorSurfaced ==
    (opt_call.op \in OptimizeRoutes /\ opt_call.out.alt_err = "ValueError")
        => /\ opt_call.out.status # 200
           /\ opt_call.out.alternative = "none"
           /\ opt_call.out.alt_solver_calls = 0

AnalysisOps == {"analyze_portfolio_with_period", "analyze_portfolio_black_litterman"}

\* empty tickers or weights, a length mismatch, or a lookback outside 1..10
AnalysisInputInvalid ==
    \/ opt_call.arg.num_tickers = 0
    \/ opt_call.arg.num_weights = 0
    \/ opt_call.arg.num_tickers # opt_call.arg.num_weights
    \/ opt_call.arg.time_period < 1
    \/ opt_call.arg.time_period > 10

\* C8: each analysis entry point rejects invalid input with an error raised
\* before any returns are fetched.
C8_InvalidInputRejectedBeforeFetch ==
    (opt_call.op \in AnalysisOps /\ AnalysisInputInvalid)
        => (opt_call.out.err # "none" /\ ~opt_call.out.fetched)

OptimizerOps == {"optimize_portfolio"} \cup MinAllocationOps

\* C9: every optimize operation given an objective other than 'max_sharpe' or
\* 'min_volatility' raises ValueError without calling the solver.
C9_UnknownObjectiveIsValueError ==
    /\ (opt_call.op \in OptimizerOps /\ opt_call.arg.constraint \notin {"max_sharpe", "min_volatility"})
          => (opt_call.out.err = "ValueError" /\ opt_call.out.solver_calls = 0)
    /\ (bl_call.op = "optimize_portfolio" /\ bl_call.arg.constraint \notin {"max_sharpe", "min_volatility"})
          => (bl_call.err = "ValueError" /\ ~bl_call.solved)

HasUnknownKind(views) ==
    \E i \in 1..Len(views) : views[i].type \notin {"absolute", "relative"}

\* C10: add_views given a list with a view of unknown kind, at any position,
\* raises ValueError and leaves P, Q, Omega and the posterior as they were.
C10_UnknownKindLeavesViews ==
    [][(bl_call'.op = "add_views" /\ HasUnknownKind(bl_call'.arg.views))
          => /\ bl_call'.err = "ValueError"
             /\ P' = P /\ Q' = Q /\ Omega' = Omega
             /\ posterior_returns' = posterior_returns
             /\ posterior_cov' = posterior_cov]_vars

\* the unknown kind came second, on a model that holds views and a posterior
C10_Witness ==
    /\ bl_call.op = "add_views"
    /\ bl_call.arg.views = <<ViewAbs1, ViewBadKind>>
    /\ bl_call.err = "ValueError"
    /\ P # None
    /\ posterior_returns # None

\* C11: when the solver reports non-convergence in a single optimization,
\* every optimize operation issues a warning and still returns the iterate
\* the solver stopped at.
C11_NonConvergenceWarnedNotFatal ==
    /\ (/\ opt_call.op \in OptimizerOps
        /\ opt_call.out.solver_calls = 1
        /\ ~opt_call.arg.result.success)
          => /\ opt_call.out.err = "none"
             /\ opt_call.out.warned
             /\ opt_call.out.solver_calls = 1
    /\ (bl_call.op = "optimize_portfolio" /\ bl_call.solved /\ ~bl_call.ret.success)
          => (bl_call.err = "none" /\ bl_call.ret.warned)

\* the six fields of a statistics record
StatsFields ==
    {"return", "real_return", "volatility", "sharpe_ratio", "real_sharpe_ratio",
     "inflation_rate"}

\* the inputs for which portfolio_stats gives up: a weight vector of the wrong
\* length, absent moments, a NaN return or volatility
StatsInputBad ==
    \/ Len(opt_call.arg.weights) # opt_call.arg.num_tickers
    \/ opt_call.arg.moments = None
    \/ opt_call.arg.moments.val.nan
    \/ SumSeq(opt_call.arg.weights) = 0

\* C18: PortfolioOptimizer.portfolio_stats never raises: for a weight vector of
\* the wrong length, absent moments, or a NaN return or volatility (weights
\* summing to 0 included) it returns the record with return 0.08, volatility
\* 0.15 and sharpe_ratio 0.53; for every other input it returns the computed
\* record, with the same six fields.
C18_StatsFallbackNeverRaises ==
    opt_call.op = "portfolio_stats" =>
        /\ opt_call.out.err = "none"
        /\ DOMAIN opt_call.out.stats = StatsFields
        /\ StatsInputBad =>
              /\ opt_call.out.stats.return = <<8, 1>>
              /\ opt_call.out.stats.volatility = <<15, 1>>
              /\ opt_call.out.stats.sharpe_ratio = <<53, 100>>
        /\ ~StatsInputBad =>
              LET w == IF SumSeq(opt_call.arg.weights) = 100 THEN opt_call.arg.weights
                       ELSE Normalised(opt_call.arg.weights)
                  vol == opt_call.out.stats.volatility
              IN  /\ opt_call.out.stats.return
                       = Rat(Dot(opt_call.arg.moments.val.mean_returns, w), 100)
                  /\ vol[2] * vol[2] * Variance(w, opt_call.arg.moments.val.cov_matrix)
                       = 10000 * vol[1] * vol[1]

\* weights that sum to 0 were answered with the fallback record
C18_Witness ==
    /\ opt_call.op = "portfolio_stats"
    /\ opt_call.arg.num_tickers = 2
    /\ opt_call.arg.weights = <<0, 0>>
    /\ opt_call.arg.moments = Some(Moments(2, FALSE))
    /\ opt_call.out.stats = FallbackStats

\* the targets of the sweep of the optimizer whose solve succeeded
SucceededTargets ==
    { k \in 1..opt_call.arg.num_portfolios : opt_call.arg.results[k].status = "success" }

\* the sweep of the optimizer ran: the moments are present and hold no NaN,
\* and the mean returns are not all the same
OptimizerSwept ==
    /\ opt_call.op = "generate_efficient_frontier"
    /\ opt_call.arg.moments # None
    /\ ~opt_call.arg.moments.val.nan
    /\ \E i, j \in 1..opt_call.arg.num_tickers :
          opt_call.arg.moments.val.mean_returns[i] # opt_call.arg.moments.val.mean_returns[j]

\* the targets of the Black-Litterman sweep whose solve succeeded
BLSucceededTargets ==
    { k \in 1..bl_call.arg.num_portfolios : bl_call.arg.outcomes[k] = "success" }

\* s lists exactly the members of S, in ascending order
AscendingListOf(s, S) ==
    /\ Len(s) = Cardinality(S)
    /\ { s[i] : i \in 1..Len(s) } = S
    /\ \A i \in 1..(Len(s) - 1) : s[i] < s[i + 1]

\* C12: in a frontier sweep a target whose solve fails is dropped and the later
\* targets are still attempted: with at least one success the returned
\* sequence has one point per target that succeeded, in ascending target
\* order, and no other point.
C12_SweepKeepsSucceededTargets ==
    /\ (OptimizerSwept /\ SucceededTargets # {})
          => /\ AscendingListOf(opt_call.out.targets, SucceededTargets)
             /\ Len(opt_call.out.value) = Len(opt_call.out.targets)
             /\ \A i \in 1..Len(opt_call.out.value) :
                   opt_call.out.value[i].weights
                     = AsRat(opt_call.arg.results[opt_call.out.targets[i]].x)
    /\ (/\ bl_call.op = "generate_efficient_frontier"
        /\ bl_call.err = "none"
        /\ BLSucceededTargets # {})
          => AscendingListOf(bl_call.ret.points, BLSucceededTargets)

\* both sweeps lost their first target and kept the second
C12_Witness ==
    /\ OptimizerSwept
    /\ opt_call.arg.results[1].status = "raise"
    /\ opt_call.arg.results[2].status = "success"
    /\ Len(opt_call.out.value) = 1
    /\ bl_call.op = "generate_efficient_frontier"
    /\ bl_call.err = "none"
    /\ bl_call.arg.outcomes[1] = "failure"
    /\ bl_call.ret.points = <<2>>

\* C13: PortfolioOptimizer.generate_efficient_frontier with num_portfolios >= 1
\* never raises and never returns an empty sequence; when no target converges
\* it returns the fallback frontier, whose weight vectors sum to 1.
C13_FrontierNeverEmpty ==
    opt_call.op = "generate_efficient_frontier" =>
        /\ opt_call.out.err = "none"
        /\ opt_call.out.value # <<>>
        /\ (~OptimizerSwept \/ SucceededTargets = {}) =>
              /\ opt_call.out.fallback
              /\ Len(opt_call.out.value) = opt_call.arg.num_portfolios
              /\ \A i \in 1..Len(opt_call.out.value) :
                    RSum(opt_call.out.value[i].weights) = <<100, 1>>

\* no target of a sweep over three assets converged
C13_Witness ==
    /\ OptimizerSwept
    /\ opt_call.arg.num_tickers = 3
    /\ SucceededTargets = {}
    /\ opt_call.out.fallback
    /\ opt_call.out.value[1].weights = <<Rat(100, 6), Rat(200, 6), Rat(300, 6)>>

\* C14: BlackLittermanModel.generate_efficient_frontier never returns an empty
\* sequence, also when no target return converges.
C14_BLFrontierNeverEmpty ==
    (bl_call.op = "generate_efficient_frontier" /\ bl_call.err = "none")
        => bl_call.ret.points # <<>>

\* the keys of a frontier point and of the result with the risk-free rate
PointKeys == {"return", "volatility", "sharpe_ratio", "weights"}
RiskFreeKeys ==
    {"efficient_frontier", "capital_allocation_line", "tangency_portfolio", "risk_free_rate"}

\* the returned value carries something beyond the keys of a computed result
FlaggedDegraded ==
    IF opt_call.op = "generate_efficient_frontier"
    THEN \E i \in 1..Len(opt_call.out.value) : DOMAIN opt_call.out.value[i] # PointKeys
    ELSE \/ DOMAIN opt_call.out.value # RiskFreeKeys
         \/ \E i \in 1..Len(opt_call.out.value.efficient_frontier) :
               DOMAIN opt_call.out.value.efficient_frontier[i] # PointKeys

FrontierOps == {"generate_efficient_frontier", "generate_efficient_frontier_with_risk_free"}

\* C15: when generate_efficient_frontier or
\* generate_efficient_frontier_with_risk_free returns the fallback frontier, the
\* returned value itself tells the caller so.
C15_FallbackFlagged ==
    (opt_call.op \in FrontierOps /\ opt_call.out.fallback) => FlaggedDegraded

\* (return - risk_free_rate) / volatility of a point, 0 for volatility 0
SharpeWith(point, risk_free_rate) ==
    IF point.volatility[1] > 0
    THEN RDiv(RSub(point.return, <<risk_free_rate, 1>>), point.volatility)
    ELSE <<0, 1>>

\* C16: the tangency_portfolio of generate_efficient_frontier_with_risk_free is
\* one of the returned frontier points and has the largest
\* (return - risk_free_rate) / volatility among them.
C16_TangencyMaxSharpeWithRiskFree ==
    opt_call.op = "generate_efficient_frontier_with_risk_free" =>
        LET frontier == opt_call.out.value.efficient_frontier
            tangency == opt_call.out.value.tangency_portfolio
            rf == opt_call.arg.risk_free_rate
        IN  /\ \E i \in 1..Len(frontier) : frontier[i] = tangency
            /\ \A i \in 1..Len(frontier) :
                  RLeq(SharpeWith(frontier[i], rf), SharpeWith(tangency, rf))

\* C17: analyze_portfolio_black_litterman with no views solves the max-Sharpe
\* problem PortfolioOptimizer.optimize_portfolio('max_sharpe') solves on the
\* equilibrium returns and the sample covariance (same objective, bounds,
\* sum-to-one constraint and initial guess), so the optimal weights agree.
C17_NoViewsMatchesPlainOptimizer ==
    opt_call.op = "black_litterman_analysis" =>
        LET plain == MaxSharpeProblem(opt_call.out.equilibrium_returns,
                                      opt_call.arg.cov_matrix)
        IN  /\ opt_call.out.problem.returns = plain.returns
            /\ opt_call.out.problem.cov = plain.cov
            /\ opt_call.out.problem.objective = plain.objective
            /\ opt_call.out.problem.bounds = plain.bounds
            /\ opt_call.out.problem.sum_to_one = plain.sum_to_one
            /\ opt_call.out.problem.initial_weights = plain.initial_weights
            /\ opt_call.out.optimal_weights = Solve(plain)

\* C19: every statistics record has sharpe_ratio 0, and real_sharpe_ratio 0
\* where it has one, when the volatility is 0: the records of
\* PortfolioOptimizer.portfolio_stats, of BlackLittermanModel.portfolio_stats
\* and the current_stats of analyze_portfolio_black_litterman.
C19_ZeroVolatilityZeroSharpe ==
    /\ (opt_call.op = "portfolio_stats" /\ opt_call.out.stats.volatility[1] = 0)
          => /\ opt_call.out.stats.sharpe_ratio = <<0, 1>>
             /\ opt_call.out.stats.real_sharpe_ratio = <<0, 1>>
    /\ (opt_call.op = "black_litterman_analysis"
          /\ opt_call.out.optimal_stats.volatility[1] = 0)
          => /\ opt_call.out.optimal_stats.sharpe_ratio = <<0, 1>>
             /\ opt_call.out.optimal_stats.real_sharpe_ratio = <<0, 1>>
    /\ (opt_call.op = "black_litterman_analysis"
          /\ opt_call.out.current_stats.volatility[1] = 0)
          => opt_call.out.current_stats.sharpe_ratio = <<0, 1>>

\* a weight vector sums to 1 and keeps every component between lo and 1
WeightsValid(weights, lo) ==
    /\ SumSeq(weights) = 100
    /\ \A i \in 1..Len(weights) : lo[i] <= weights[i] /\ weights[i] <= 100

\* the lower bounds of a call of an optimize operation of the optimizer
LowerBounds ==
    [i \in 1..opt_call.arg.num_assets |->
       IF opt_call.op = "optimize_with_minimum_allocation"
       THEN opt_call.arg.min_allocation
       ELSE IF opt_call.op = "optimize_with_custom_minimum_allocation"
       THEN (IF opt_call.arg.min_allocations = None THEN 1
             ELSE opt_call.arg.min_allocations.val[i])
       ELSE 0]

\* C20: every weight vector an optimize operation returns, and every weight
\* vector of a returned frontier point, sums to 1 and lies within its bounds,
\* also when the solver reported non-convergence and for fallback points.
C20_WeightsSumToOneWithinBounds ==
    /\ (opt_call.op \in OptimizerOps /\ opt_call.out.err = "none")
          => WeightsValid(opt_call.out.weights, LowerBounds)
    /\ (opt_call.op = "generate_efficient_frontier")
          => \A i \in 1..Len(opt_call.out.value) :
                /\ RSum(opt_call.out.value[i].weights) = <<100, 1>>
                /\ \A j \in 1..Len(opt_call.out.value[i].weights) :
                      /\ RLeq(<<0, 1>>, opt_call.out.value[i].weights[j])
                      /\ RLeq(opt_call.out.value[i].weights[j], <<100, 1>>)
    /\ (bl_call.op = "optimize_portfolio" /\ bl_call.err = "none")
          => WeightsValid(bl_call.ret.weights,
                          [i \in 1..n_assets |-> bl_call.arg.min_weight])

\* C21: portfolio_stats is a pure function: a call changes no field of the
\* model it is called on, and a second call with the same weights on the same
\* model returns what the first returned.
C21_StatsPureNoHiddenState ==
    [][bl_call'.op = "portfolio_stats" =>
          /\ cov_matrix' = cov_matrix
          /\ equilibrium_returns' = equilibrium_returns
          /\ P' = P /\ Q' = Q /\ Omega' = Omega
          /\ posterior_returns' = posterior_returns
          /\ posterior_cov' = posterior_cov
          /\ (bl_call.op = "portfolio_stats" /\ bl_call.arg = bl_call'.arg)
                => (bl_call'.err = bl_call.err /\ bl_call'.ret = bl_call.ret)]_vars

\* the row of the pick matrix a view stands for: 1/|S| over the assets S of an
\* absolute view; +1 at the first and -1 at the second asset of a relative
\* view, whatever is listed after them; 0 in every other column
ExpectedPickRow(view) ==
    LET idx == AssetIndices(view)
        S == { idx[k] : k \in 1..Len(idx) }
    IN  [c \in 1..n_assets |->
           IF view.type = "absolute"
           THEN (IF c \in S THEN Rat(1, Cardinality(S)) ELSE <<0, 1>>)
           ELSE IF c = idx[1] THEN <<1, 1>>
           ELSE IF Len(idx) >= 2 /\ c = idx[2] THEN <<-1, 1>>
           ELSE <<0, 1>>]

\* C22: for every view list add_views accepts, row i of P is 1/|S| over the
\* assets of an absolute view and +1, -1 at the first two assets of a relative
\* view, 0 elsewhere, and Q[i] is the value of view i.
C22_PickMatrixRows ==
    (bl_call.op = "add_views" /\ bl_call.err = "none") =>
        \A i \in 1..Len(bl_call.arg.views) :
            /\ P.val[i] = ExpectedPickRow(bl_call.arg.views[i])
            /\ Q.val[i] = bl_call.arg.views[i].view

\* the model holds views, and tau * Sigma or Omega has no inverse
PosteriorInputsSingular ==
    /\ P # None /\ Q # None /\ Omega # None
    /\ \/ Det(cov_matrix.val) = 0
       \/ \E i \in 1..Len(Omega.val) : Omega.val[i][1] = 0

\* C23: a singular prior tau * Sigma or a singular Omega is fatal for
\* calculate_posterior_returns: the call raises, returns no value, and
\* posterior_returns and posterior_cov stay as they were before the call.
C23_SingularPosteriorIsFatal ==
    [][(bl_call'.op = "calculate_posterior_returns" /\ PosteriorInputsSingular)
          => /\ bl_call'.err = "LinAlgError"
             /\ bl_call'.ret = None
             /\ posterior_returns' = posterior_returns
             /\ posterior_cov' = posterior_cov]_vars

\* the call failed on a singular Omega and an earlier posterior is still there
C23_Witness ==
    /\ bl_call.op = "calculate_posterior_returns"
    /\ bl_call.err = "LinAlgError"
    /\ Det(cov_matrix.val) # 0
    /\ Omega.val = << <<0, 1>> >>
    /\ posterior_returns # None
    /\ posterior_returns.val.Q = <<15, 2>>

\* C24: returns with fewer than 30 rows are an error for both engines: the
\* fetch_data of PortfolioOptimizer and of BlackLittermanModel fails and
\* leaves no moments estimated from fewer than 30 observations.
C24_TooFewRowsIsAnError ==
    /\ (opt_call.op = "fetch_data" /\ opt_call.arg.data_ok /\ opt_call.arg.rows < 30)
          => (opt_call.out.err # "none" /\ opt_call.out.moments = None)
    /\ (bl_call.op = "fetch_data" /\ bl_call.err = "none")
          => bl_call.arg.rows >= 30

\* rec is among the recommendations returned
GapReturned(rec) ==
    \E i \in 1..Len(opt_call.out.recommendations) : opt_call.out.recommendations[i] = rec

\* no recommendation returned is worse than rec
GapOutranked(rec) ==
    \A i \in 1..Len(opt_call.out.recommendations) :
        RLeq(rec.sharpe_improvement, opt_call.out.recommendations[i].sharpe_improvement)

\* C25: analyze_portfolio_gaps returns at most 5 entries, sorted by
\* sharpe_improvement in non-increasing order, each a catalogue symbol that is
\* not in current_tickers with a sharpe_improvement above 0, and no eligible
\* candidate left out has a strictly larger improvement than a returned one.
C25_TopFiveRecommendations ==
    opt_call.op = "analyze_portfolio_gaps" =>
        LET recs == opt_call.out.recommendations
            appended == opt_call.out.appended
        IN  /\ Len(recs) <= 5
            /\ \A i \in 1..(Len(recs) - 1) :
                  RLeq(recs[i + 1].sharpe_improvement, recs[i].sharpe_improvement)
            /\ \A i, j \in 1..Len(recs) : recs[i].ticker = recs[j].ticker => i = j
            /\ \A i \in 1..Len(recs) :
                  /\ InList(recs[i].ticker, SectorEtfs)
                  /\ ~InList(recs[i].ticker, opt_call.arg.current_tickers)
                  /\ recs[i].sharpe_improvement[1] > 0
                  /\ \E j \in 1..Len(appended) : appended[j] = recs[i]
            /\ \A j \in 1..Len(appended) :
                  ~GapReturned(appended[j]) => GapOutranked(appended[j])

\* six candidates improve the Sharpe ratio, the smaller improvements first;
\* five are returned, the largest improvement first
C25_Witness ==
    /\ opt_call.op = "analyze_portfolio_gaps"
    /\ opt_call.arg.current_tickers = <<"AAPL", "MSFT">>
    /\ opt_call.arg.current_weights = <<0, 100>>
    /\ Len(opt_call.out.appended) = 6
    /\ \A j \in 1..3 : opt_call.out.appended[j].sharpe_improvement = <<1, 4>>
    /\ \A j \in 4..6 : opt_call.out.appended[j].sharpe_improvement = <<3, 4>>
    /\ opt_call.out.appended[3].ticker = "XLRE"
    /\ Len(opt_call.out.recommendations) = 5
    /\ opt_call.out.recommendations[1].ticker = "XLU"
    /\ ~GapReturned(opt_call.out.appended[3])

\* the catalogue entries that are not in s, in catalogue order
RECURSIVE NotHeld(_, _)
NotHeld(s, k) ==
    IF k > Len(SectorEtfs) THEN <<>>
    ELSE (IF \E i \in 1..Len(s) : s[i] = SectorEtfs[k] THEN <<>> ELSE <<SectorEtfs[k]>>)
           \o NotHeld(s, k + 1)

\* the constructor of a test optimizer raised what the data manager raised
CandidateFailed ==
    /\ Loaded("analyze_portfolio_gaps")
    /\ req[opt_call.arg.slot].err # "none"

\* C26: in analyze_portfolio_gaps a failure while one candidate is evaluated
\* skips only that candidate: the loop goes on with the next entry and the
\* recommendations it has, the call returns, every catalogue entry not held
\* is evaluated, and every candidate that succeeded with an improvement above
\* 0 is returned unless five candidates at least as good are.
C26_CandidateFailureSkipsOnlyThatCandidate ==
    /\ [][CandidateFailed =>
              /\ opt_call'.op = "gaps"
              /\ opt_call'.arg.k = opt_call.arg.arg.k + 1
              /\ opt_call'.arg.recommendations = opt_call.arg.arg.recommendations]_vars
    /\ [](opt_call.op = "analyze_portfolio_gaps" =>
              /\ opt_call.out.err = "none"
              /\ opt_call.out.evaluated = NotHeld(opt_call.arg.current_tickers, 1)
              /\ \A j \in 1..Len(opt_call.out.appended) :
                    \/ GapReturned(opt_call.out.appended[j])
                    \/ /\ Len(opt_call.out.recommendations) = 5
                       /\ GapOutranked(opt_call.out.appended[j]))

\* the ninth candidate has just failed; the eighth is kept and the loop goes
\* on with the tenth
C26_Witness ==
    /\ opt_call.op = "gaps"
    /\ opt_call.arg.current_tickers = <<"AAPL", "MSFT">>
    /\ opt_call.arg.raised
    /\ opt_call.arg.k = 10
    /\ opt_call.arg.evaluated = SubSeq(SectorEtfs, 1, 9)
    /\ Len(opt_call.arg.recommendations) = 1
    /\ opt_call.arg.recommendations[1].ticker = "XLB"

\* C27: analyze_portfolio_gaps computes the Sharpe ratio of the current
\* portfolio and of every test portfolio from returns over the same lookback,
\* the time_period of the optimizer passed in, for every time_period in 1..10.
C27_GapsUseOneLookback ==
    (/\ opt_call.op = "loading"
     /\ opt_call.arg.call = "analyze_portfolio_gaps"
     /\ opt_call.arg.arg.current_period \in 1..10)
        => req[opt_call.arg.slot].time_period = opt_call.arg.arg.current_period

\* C28: DataManager.fetch_data returns a returns matrix for every outcome of
\* _fetch_with_retry and never raises: data from the bulk download, from the
\* combined per-ticker downloads or from the extended date range is turned
\* into returns, and None or empty data into the synthetic returns.
C28_FetchDataAlwaysReturns ==
    \A r \in Requests :
        req[r].pc = "done" => (req[r].err = "none" /\ req[r].data # None)

\* the result a method returns when its download has data
ResultOfMethod(method) ==
    IF method = 1 THEN "bulk" ELSE IF method = 2 THEN "combined" ELSE "extended"

\* C29: _fetch_with_retry ends after at most max_retries attempts whatever the
\* downloads do: no download follows one that had data, whose data is the
\* result; the result is None only when every download of every attempt
\* failed; and the sleeps taken are 2^0, 2^1, ... one between two attempts,
\* none after the last attempt.
C29_RetryBoundedBackoffBetweenAttempts ==
    LET log == retry.log
        sleeps == retry.sleeps
    IN  /\ retry.attempt < MaxRetries
        /\ \A i \in 1..Len(log) :
              /\ log[i].attempt <= retry.attempt
              /\ i < Len(log) => log[i].outcome # "data"
              /\ \A j \in 1..Len(log) :
                    (log[i].attempt = log[j].attempt /\ log[i].method = log[j].method)
                        => i = j
        /\ Len(sleeps) = retry.attempt
        /\ \A i \in 1..Len(sleeps) : sleeps[i] = 2 ^ (i - 1)
        /\ retry.pc = "done" =>
              /\ retry.result = "None"
                    <=> \A i \in 1..Len(log) : log[i].outcome # "data"
              /\ retry.result = "None" =>
                    /\ retry.attempt = MaxRetries - 1
                    /\ \A a \in 0..(MaxRetries - 1) :
                          \E i \in 1..Len(log) : log[i].attempt = a /\ log[i].method = 1
              /\ retry.result # "None" =>
                    /\ log[Len(log)].outcome = "data"
                    /\ retry.result = ResultOfMethod(log[Len(log)].method)

\* every download of three attempts for two tickers failed: None is returned
\* after the sleeps of 1 and 2 seconds
C29_Witness ==
    /\ retry.pc = "done"
    /\ retry.num_tickers = 2
    /\ retry.result = "None"
    /\ Len(retry.log) = 8
    /\ retry.sleeps = <<1, 2>>

\* the cache path of the call request r is making
PathOf(r) == CachePath(req'[r].tickers, req'[r].time_period)

\* C30: fetch_data serves the cached matrix only when force_refresh is false
\* and a cache entry for the key exists and is younger than max_cache_age; in
\* every other case it fetches, and when such a call returns the cache entry
\* of the key holds exactly the matrix returned, young enough for the next
\* call without force_refresh to be served from it.
C30_CacheServesAndKeepsWhatWasReturned ==
    [][\A r \in Requests :
          /\ (req[r].pc = "idle" /\ req'[r].pc = "done")
                => /\ ~req'[r].force_refresh
                   /\ cache[PathOf(r)] # None
                   /\ cache[PathOf(r)].val.fresh
                   /\ req'[r].data = Some(cache[PathOf(r)].val.frame)
          /\ (/\ req[r].pc = "idle"
              /\ req'[r].pc # "idle"
              /\ (req'[r].force_refresh \/ cache[PathOf(r)] = None
                    \/ ~cache[PathOf(r)].val.fresh))
                => req'[r].pc = "fetching"
          /\ (req[r].pc = "fetching" /\ req'[r].pc = "done" /\ req'[r].err = "none")
                => cache'[PathOf(r)] = Some([frame |-> req'[r].data.val, fresh |-> TRUE])]_vars
====
